---- MODULE Spec2Model ----
(***************************************************************************)
(* A model of nucat's generative point-cloud animation engine: the surface *)
(* sampler (src/src/ascii/skinning.js), the effect-parameter / fade state  *)
(* machine (src/src/gui/gui.js, src/src/ascii/mystiqueFade.js), the frame  *)
(* loop (src/src/main.js), the layered displacement                        *)
(* (src/src/ascii/instancedMesh.js) and the chaos driver                   *)
(* (src/unnamed/part_003).                                                 *)
(*                                                                         *)
(* Numbers.  JavaScript doubles are modelled in fixed point: every real    *)
(* quantity (intensity, speed, progress, seconds, radians, probability) is *)
(* an integer number of thousandths, so 5.0 is 5000 and 0.05 is 50.  A     *)
(* product of two such numbers is divided by 1000, rounding toward minus   *)
(* infinity.  Mesh coordinates are integers in the plane z = 0, so that a  *)
(* triangle's area is exact: twice the area is |cross product|.            *)
(***************************************************************************)
EXTENDS Integers, Sequences, FiniteSets, TLC

VARIABLES
    skinnedMeshes,          \* state.js skinnedMeshes: the sequence of meshes
    maxCharacters,          \* CONFIG.defaults.maxCharacters
    sampledVertexIndices,   \* state.js sampledVertexIndices: the sample set
    instancedMesh,          \* state.js instancedMesh: [present, count]
    currentGeometry,        \* state.js currentGeometry: the glyph's shape
    disperseDirections,     \* state.js disperseDirections
    params,                 \* config.js params: the GUI-controlled parameter bag
    effectTime,             \* state.js effectTime (thousandths of a second)
    chaos,                  \* the chaos driver's module state (part_003 25-31)
    now,                    \* performance.now() / 1000 (thousandths of a second)
    lastOp                  \* the handler that ran last, and what it was given

vars == <<skinnedMeshes, maxCharacters, sampledVertexIndices, instancedMesh,
          currentGeometry, disperseDirections, params, effectTime, chaos, now,
          lastOp>>

-----------------------------------------------------------------------------
(* Bounds of the model *)

MaxDensity == 3        \* sampling densities 1..MaxDensity
MaxCap == 24           \* caps 1..MaxCap, besides the configured default
MaxSeed == 2           \* states of the random generator
MaxFrames == 2         \* frames of the interactive specification
MaxChaosClock == 45000 \* the clock's last reading in the chaos specification
MaxSetupFrames == 2    \* frames before the return request in the fade specification
MaxCommands == 4        \* control commands in a run of the effect engine
MaxChaosCommands == 3   \* control commands in a run of the chaos driver
MaxSetupCommands == 3   \* control commands before a return to rest
MaxSkinFrames == 2      \* frames of the skinning specification
MaxSkinCommands == 2    \* control commands in a run of the skinning specification
MaxLongRunClock == 850000 \* the clock's last reading in the driver's long run

-----------------------------------------------------------------------------
(* Small helpers *)

Min(a, b) == IF a < b THEN a ELSE b
Max(a, b) == IF a > b THEN a ELSE b
Abs(a) == IF a < 0 THEN -a ELSE a
CeilDiv(a, b) == (a + b - 1) \div b

RECURSIVE SumSeq(_)
SumSeq(s) == IF s = <<>> THEN 0 ELSE Head(s) + SumSeq(Tail(s))

IsPrefix(s, t) == /\ Len(s) <= Len(t)
                  /\ \A i \in 1..Len(s) : s[i] = t[i]

-----------------------------------------------------------------------------
(* Meshes.  A mesh has vertexCount vertices 0..vertexCount-1 with planar    *)
(* integer positions pos, an optional triangle index list index (vertex ids, *)
(* three per face), and an optional skeleton: bones with a name that does or *)
(* does not contain "tail" and a parent (0: no parent or a parent that is no *)
(* bone; k > 0: bone number k of the skeleton, counted from 1).             *)

Bone(tail, parent) == [tail |-> tail, parent |-> parent]

\* one triangle, area 8 (twice the area 16); no tail bone
TriangleMesh ==
    [vertexCount |-> 3, pos |-> << <<0, 0>>, <<4, 0>>, <<0, 4>> >>,
     hasIndex |-> TRUE, index |-> <<0, 1, 2>>,
     hasSkeleton |-> TRUE, bones |-> << Bone(FALSE, 0), Bone(FALSE, 1) >>]

\* a two-triangle quad sharing the edge 0-2; one tail bone under a bone
QuadMesh ==
    [vertexCount |-> 4,
     pos |-> << <<0, 0>>, <<4, 0>>, <<4, 4>>, <<0, 4>> >>,
     hasIndex |-> TRUE, index |-> <<0, 1, 2, 0, 2, 3>>,
     hasSkeleton |-> TRUE,
     bones |-> << Bone(FALSE, 0), Bone(TRUE, 1) >>]

\* three faces with doubled areas 1, 1, 10: the average is 4, so the third is
\* "large" (10 > 8) and gets min(10, ceil(10/4) + 3) = 6 subdivisions
StretchedMesh ==
    [vertexCount |-> 5,
     pos |-> << <<0, 0>>, <<1, 0>>, <<0, 1>>, <<10, 0>>, <<0, 2>> >>,
     hasIndex |-> TRUE, index |-> <<0, 1, 2, 1, 0, 4, 0, 3, 2>>,
     hasSkeleton |-> TRUE, bones |-> << Bone(FALSE, 0) >>]

\* vertices only (no index list); a root tail bone (no bone parent) and a tail
\* bone under it
CloudMesh ==
    [vertexCount |-> 4,
     pos |-> << <<0, 0>>, <<1, 0>>, <<2, 0>>, <<3, 0>> >>,
     hasIndex |-> FALSE, index |-> <<>>,
     hasSkeleton |-> TRUE,
     bones |-> << Bone(TRUE, 0), Bone(TRUE, 1) >>]

\* a zero-area face (collinear vertices) and no skeleton
FlatMesh ==
    [vertexCount |-> 3, pos |-> << <<0, 0>>, <<1, 0>>, <<2, 0>> >>,
     hasIndex |-> TRUE, index |-> <<0, 1, 2>>,
     hasSkeleton |-> FALSE, bones |-> <<>>]

\* one face of doubled area 100 and seven faces without area on the collinear
\* vertices 0, 3, 4, 1: the average is 12.5, so the first face is "large" and
\* gets min(10, ceil(100/12.5) + 3) = min(10, 11) = 10 subdivisions
SliverMesh ==
    [vertexCount |-> 5,
     pos |-> << <<0, 0>>, <<10, 0>>, <<0, 10>>, <<1, 0>>, <<2, 0>> >>,
     hasIndex |-> TRUE,
     index |-> <<0, 1, 2,  0, 3, 4,  3, 4, 1,  0, 3, 1,  0, 4, 1,
                 4, 3, 0,  1, 4, 3,  1, 3, 0>>,
     hasSkeleton |-> TRUE, bones |-> << Bone(FALSE, 0) >>]

MeshSets == { <<TriangleMesh>>, <<QuadMesh>>, <<StretchedMesh>>,
              <<TriangleMesh, CloudMesh>>, <<FlatMesh, QuadMesh>>,
              <<SliverMesh>> }

-----------------------------------------------------------------------------
(* Sample descriptors (skinning.js pushSampledVertex arguments).  Each is a  *)
(* record [meshIndex, type, verts, param]: verts are the vertex ids (for a   *)
(* bonePoint: <<boneIndex, parentBoneIndex>>), param is <<>> for vertex and  *)
(* faceCenter, <<t>> in thousandths for edgePoint, <<i>> with t = i/20 for   *)
(* bonePoint, and <<u, v, w, d>> for the barycentric triple (u/d, v/d, w/d). *)

VertexSample(mi, i) ==
    [meshIndex |-> mi, type |-> "vertex", verts |-> <<i>>, param |-> <<>>]
FaceCenterSample(mi, i0, i1, i2) ==
    [meshIndex |-> mi, type |-> "faceCenter", verts |-> <<i0, i1, i2>>,
     param |-> <<>>]
InteriorSample(mi, i0, i1, i2, bary) ==
    [meshIndex |-> mi, type |-> "interior", verts |-> <<i0, i1, i2>>,
     param |-> bary]
EdgePointSample(mi, a, b, t) ==
    [meshIndex |-> mi, type |-> "edgePoint", verts |-> <<a, b>>,
     param |-> <<t>>]
BonePointSample(mi, boneIndex, parentBoneIndex, i) ==
    [meshIndex |-> mi, type |-> "bonePoint",
     verts |-> <<boneIndex, parentBoneIndex>>, param |-> <<i>>]

-----------------------------------------------------------------------------
(* sampleVertices (skinning.js 177-419) *)

DefaultMaxCharacters == 200000

\* addSample (204-213): nothing is pushed once the cap is reached
addSample(s, sample, cap) ==
    IF Len(s) >= cap THEN s ELSE Append(s, sample)

\* getPos (216-221)
getPos(mesh, idx) == mesh.pos[idx + 1]

\* triangleArea (224-228), doubled: |(p1 - p0) x (p2 - p0)|
triangleArea2(p0, p1, p2) ==
    Abs((p1[1] - p0[1]) * (p2[2] - p0[2]) - (p1[2] - p0[2]) * (p2[1] - p0[1]))

faceCountOf(mesh) == Len(mesh.index) \div 3
faceVertex(mesh, f, k) == mesh.index[f * 3 + k + 1]
faceArea2(mesh, f) ==
    triangleArea2(getPos(mesh, faceVertex(mesh, f, 0)),
                  getPos(mesh, faceVertex(mesh, f, 1)),
                  getPos(mesh, faceVertex(mesh, f, 2)))

\* first pass (262-273): the sum of the (doubled) face areas; the average is
\* totalArea2 / faceCount
totalArea2(mesh) ==
    SumSeq([f \in 1..faceCountOf(mesh) |-> faceArea2(mesh, f - 1)])

\* isLargeTriangle (317): area > avgArea * 2, with avgArea = total / faceCount
isLargeTriangle(mesh, f) ==
    faceArea2(mesh, f) * faceCountOf(mesh) > 2 * totalArea2(mesh)

\* subdivisions (339): min(10, ceil(area / avgArea) + 3)
subdivisions(mesh, f) ==
    Min(10, CeilDiv(faceArea2(mesh, f) * faceCountOf(mesh), totalArea2(mesh)) + 3)

\* the vertex loop with its guard off by one: it leaves the loop one short of
\* the cap
RECURSIVE vertexLoopStopsEarly(_, _, _, _, _, _)
vertexLoopStopsEarly(s, mi, i, vertexCount, density, cap) ==
    IF i >= vertexCount \/ Len(s) >= cap - 1 THEN s
    ELSE vertexLoopStopsEarly(addSample(s, VertexSample(mi, i), cap),
                              mi, i + density, vertexCount, density, cap)

\* the vertex loop (231-252)
RECURSIVE vertexLoop(_, _, _, _, _, _)
vertexLoop(s, mi, i, vertexCount, density, cap) ==
    IF i >= vertexCount \/ Len(s) >= cap THEN s
    ELSE vertexLoop(addSample(s, VertexSample(mi, i), cap),
                    mi, i + density, vertexCount, density, cap)

\* base interior points (328-335)
baseBarycentricPoints ==
    << <<500, 250, 250, 1000>>, <<250, 500, 250, 1000>>,
       <<250, 250, 500, 1000>>, <<600, 200, 200, 1000>>,
       <<200, 600, 200, 1000>>, <<200, 200, 600, 1000>> >>

\* the inner loop of the denser grid (342-355): the points of row i from j
\* on, j ascending, the corners left out
largeBarycentricRow(sub, i, j) ==
    LET corner(p) == (p[1] = sub \/ p[2] = sub \/ p[3] = sub)
                     /\ (p[1] = 0 \/ p[2] = 0 \/ p[3] = 0)
        all == [n \in 1..(sub - i - j + 1) |->
                   <<i, j + n - 1, sub - i - (j + n - 1), sub>>]
    IN SelectSeq(all, LAMBDA p : ~corner(p))

\* the denser grid of a large triangle (340-356): i, then j ascending, the
\* three corners left out
RECURSIVE largeBarycentricPoints(_, _, _)
largeBarycentricPoints(sub, i, j) ==
    IF i > sub THEN <<>>
    ELSE largeBarycentricRow(sub, i, j)
         \o largeBarycentricPoints(sub, i + 1, 0)

\* barycentricPoints that gives a face without area no interior point
barycentricPointsSkipsFlat(mesh, f) ==
    IF faceArea2(mesh, f) = 0 THEN <<>>
    ELSE IF isLargeTriangle(mesh, f)
    THEN largeBarycentricPoints(subdivisions(mesh, f), 0, 0)
    ELSE baseBarycentricPoints

barycentricPoints(mesh, f) ==
    IF isLargeTriangle(mesh, f)
    THEN largeBarycentricPoints(subdivisions(mesh, f), 0, 0)
    ELSE baseBarycentricPoints

\* the interior loop (360-369)
RECURSIVE interiorLoop(_, _, _, _, _, _, _)
interiorLoop(s, mi, i0, i1, i2, pts, cap) ==
    IF pts = <<>> \/ Len(s) >= cap THEN s
    ELSE interiorLoop(addSample(s, InteriorSample(mi, i0, i1, i2, Head(pts)), cap),
                      mi, i0, i1, i2, Tail(pts), cap)

\* edgeTs that gives a large face the three parameters of any face
edgeTsAlwaysThree(large) == <<250, 500, 750>>

\* edgeTs (372-374), thousandths
edgeTs(large) ==
    IF large THEN <<100, 200, 300, 400, 500, 600, 700, 800, 900>>
    ELSE <<250, 500, 750>>

\* the loop over one edge's parameters (388-397)
RECURSIVE edgeTLoop(_, _, _, _, _, _)
edgeTLoop(s, mi, a, b, ts, cap) ==
    IF ts = <<>> \/ Len(s) >= cap THEN s
    ELSE edgeTLoop(addSample(s, EdgePointSample(mi, a, b, Head(ts)), cap),
                   mi, a, b, Tail(ts), cap)

edgeKey(a, b) == <<Min(a, b), Max(a, b)>>

\* the loop over a face's edges that samples an edge again whenever a face
\* has it
RECURSIVE edgePairLoopEveryFace(_, _, _, _, _)
edgePairLoopEveryFace(st, mi, pairs, ts, cap) ==
    IF pairs = <<>> THEN st
    ELSE LET a == Head(pairs)[1]
             b == Head(pairs)[2]
             next == [s |-> edgeTLoop(st.s, mi, a, b, ts, cap),
                      edgeSet |-> st.edgeSet \cup {edgeKey(a, b)}]
         IN edgePairLoopEveryFace(next, mi, Tail(pairs), ts, cap)

\* the loop over a face's three edges (376-399); st = [s, edgeSet]
RECURSIVE edgePairLoop(_, _, _, _, _)
edgePairLoop(st, mi, pairs, ts, cap) ==
    IF pairs = <<>> THEN st
    ELSE LET a == Head(pairs)[1]
             b == Head(pairs)[2]
             next == IF edgeKey(a, b) \in st.edgeSet THEN st
                     ELSE [s |-> edgeTLoop(st.s, mi, a, b, ts, cap),
                           edgeSet |-> st.edgeSet \cup {edgeKey(a, b)}]
         IN edgePairLoop(next, mi, Tail(pairs), ts, cap)

\* one face (286-399)
sampleFace(st, mesh, mi, f, cap) ==
    LET i0 == faceVertex(mesh, f, 0)
        i1 == faceVertex(mesh, f, 1)
        i2 == faceVertex(mesh, f, 2)
        large == isLargeTriangle(mesh, f)
        s1 == addSample(st.s, FaceCenterSample(mi, i0, i1, i2), cap)
        s2 == interiorLoop(s1, mi, i0, i1, i2, barycentricPoints(mesh, f), cap)
    IN edgePairLoop([s |-> s2, edgeSet |-> st.edgeSet], mi,
                    << <<i0, i1>>, <<i1, i2>>, <<i2, i0>> >>, edgeTs(large), cap)

\* the face loop (283-400)
RECURSIVE faceLoop(_, _, _, _, _, _)
faceLoop(st, mesh, mi, f, density, cap) ==
    IF f >= faceCountOf(mesh) \/ Len(st.s) >= cap THEN st
    ELSE faceLoop(sampleFace(st, mesh, mi, f, cap), mesh, mi, f + density,
                  density, cap)

\* the body of skinnedMeshes.forEach (189-402) for mesh number mi (from 0)
sampleMesh(s, mesh, mi, density, cap) ==
    LET s1 == vertexLoop(s, mi, 0, mesh.vertexCount, density, cap)
    IN IF mesh.hasIndex
       THEN faceLoop([s |-> s1, edgeSet |-> {}], mesh, mi, 0, density, cap).s
       ELSE s1

RECURSIVE sampleMeshesFrom(_, _, _, _, _)
sampleMeshesFrom(s, meshes, mi, density, cap) ==
    IF mi >= Len(meshes) THEN s
    ELSE sampleMeshesFrom(sampleMesh(s, meshes[mi + 1], mi, density, cap),
                          meshes, mi + 1, density, cap)

\* sampleVertices (177-419): the arrays are reset, then every mesh is sampled
sampleVertices(meshes, density, cap) ==
    sampleMeshesFrom(<<>>, meshes, 0, density, cap)

-----------------------------------------------------------------------------
(* sampleSkeletonBones (skinning.js 123-172) *)

pointsPerBone == 20

\* the bone loop without its cap check
RECURSIVE bonePointLoopUncapped(_, _, _, _, _, _)
bonePointLoopUncapped(s, mi, boneIndex, parentBoneIndex, i, cap) ==
    IF i > pointsPerBone THEN s
    ELSE bonePointLoopUncapped(
             Append(s, BonePointSample(mi, boneIndex, parentBoneIndex, i)),
             mi, boneIndex, parentBoneIndex, i + 1, cap)

\* the loop over i = 0..pointsPerBone (150-167)
RECURSIVE bonePointLoop(_, _, _, _, _, _)
bonePointLoop(s, mi, boneIndex, parentBoneIndex, i, cap) ==
    IF i > pointsPerBone \/ Len(s) >= cap THEN s
    ELSE bonePointLoop(Append(s, BonePointSample(mi, boneIndex, parentBoneIndex, i)),
                       mi, boneIndex, parentBoneIndex, i + 1, cap)

\* tailBones.forEach (142-168) over the bones k.. of one skeleton, in order;
\* bone numbers are 0-based in the descriptors, as bones.indexOf gives them
RECURSIVE tailBoneLoop(_, _, _, _, _)
tailBoneLoop(s, bones, mi, k, cap) ==
    IF k > Len(bones) THEN s
    ELSE LET bone == bones[k]
             next == IF bone.tail /\ bone.parent # 0
                     THEN bonePointLoop(s, mi, k - 1, bone.parent - 1, 0, cap)
                     ELSE s
         IN tailBoneLoop(next, bones, mi, k + 1, cap)

RECURSIVE boneMeshesFrom(_, _, _, _)
boneMeshesFrom(s, meshes, mi, cap) ==
    IF mi >= Len(meshes) THEN s
    ELSE LET mesh == meshes[mi + 1]
             next == IF mesh.hasSkeleton
                     THEN tailBoneLoop(s, mesh.bones, mi, 1, cap)
                     ELSE s
         IN boneMeshesFrom(next, meshes, mi + 1, cap)

\* sampleSkeletonBones: appends to the current sample set s
sampleSkeletonBones(s, meshes, cap) == boneMeshesFrom(s, meshes, 0, cap)

-----------------------------------------------------------------------------
(* createInstancedMesh (instancedMesh.js 34-95).  Math.random is a choice:  *)
(* seed stands for the generator's state, and every instance's direction is *)
(* drawn from three unit vectors by it.                                      *)

UnitDirections == << <<1000, 0, 0>>, <<0, 1000, 0>>, <<0, 0, -1000>> >>

randomDirections(n, seed) ==
    [i \in 1..n |-> UnitDirections[((i * seed + seed) % 3) + 1]]

\* createInstancedMesh that keeps the disperse directions it finds
createInstancedMeshKeepsDirections(seed) ==
    /\ instancedMesh' =
           [present |-> TRUE, count |-> Len(sampledVertexIndices'),
            matrices |-> [i \in 1..Len(sampledVertexIndices') |-> <<0, 0, 0>>]]
    /\ disperseDirections' = disperseDirections

\* lines 53-91: every instance's matrix starts as the identity, whose
\* position part is the origin
createInstancedMesh(seed) ==
    /\ instancedMesh' =
           [present |-> TRUE, count |-> Len(sampledVertexIndices'),
            matrices |-> [i \in 1..Len(sampledVertexIndices') |-> <<0, 0, 0>>]]
    /\ disperseDirections' =
           randomDirections(Len(sampledVertexIndices'), seed)

-----------------------------------------------------------------------------
(* The parameter bag.  Effect names in the order of the effect buttons       *)
(* (gui.js 388-393), which is taken for the key order of params.activeEffects *)
(* and params.effectParams.                                                  *)

EffectNames == <<"hover", "noise", "wave", "spiral", "disperse", "spiralFlow">>
Effects == {EffectNames[i] : i \in 1..Len(EffectNames)}
NoEffect == "none"

\* Object.entries(params.activeEffects).filter(v).map(k): the active names in
\* key order
activeList(active) == SelectSeq(EffectNames, LAMBDA e : active[e])
activeCountOf(active) == Cardinality({e \in Effects : active[e]})

\* "activeList.length > 0 ? activeList[0] : 'none'" (gui.js 293-296, 326-329)
legacyEffectType(active) ==
    IF activeList(active) = <<>> THEN NoEffect ELSE Head(activeList(active))

\* params as config.js 102-127 builds it
ConfigParams ==
    [samplingDensity |-> 1, character |-> "block", characterSize |-> 10800,
     effectType |-> NoEffect, effectIntensity |-> 5000, effectSpeed |-> 1000,
     disperseAmount |-> 0, disperseTarget |-> 0,
     spiralFlowProgress |-> 0, spiralFlowSpeed |-> 1000, spiralFlowWaves |-> 5,
     spiralFlowActive |-> FALSE,
     color |-> <<0, 255, 255>>, bloomStrength |-> 800, bloomRadius |-> 300]

\* the layered-effect fields of params, which the handlers read and write but
\* whose initial values are set in a part of config.js that is not in src/:
\* nothing active, nothing focused, not returning, every effect's saved
\* parameters at the editable fields' defaults
LayeredParams ==
    [activeEffects |-> [e \in Effects |-> FALSE],
     effectParams |-> [e \in Effects |->
                          [intensity |-> 5000, speed |-> 1000,
                           flowSpeed |-> 1000, waves |-> 5]],
     focusedEffect |-> NoEffect,
     isReturning |-> FALSE]

InitParams == ConfigParams @@ LayeredParams

-----------------------------------------------------------------------------
(* gui.js: the effect buttons and the editable fields.  Each handler is a    *)
(* function from the parameter bag to the parameter bag.                     *)

\* saveParamsToEffect (225-233)
saveParamsToEffect(p, effectName) ==
    IF effectName = NoEffect THEN p
    ELSE LET saved == p.effectParams[effectName]
             base == [saved EXCEPT !.intensity = p.effectIntensity,
                                   !.speed = p.effectSpeed]
             full == IF effectName = "spiralFlow"
                     THEN [base EXCEPT !.flowSpeed = p.spiralFlowSpeed,
                                       !.waves = p.spiralFlowWaves]
                     ELSE base
         IN [p EXCEPT !.effectParams[effectName] = full]

\* loadParamsFromEffect (236-246)
loadParamsFromEffect(p, effectName) ==
    IF effectName = NoEffect THEN p
    ELSE LET saved == p.effectParams[effectName]
             base == [p EXCEPT !.effectIntensity = saved.intensity,
                               !.effectSpeed = saved.speed]
         IN IF effectName = "spiralFlow"
            THEN [base EXCEPT !.spiralFlowSpeed = saved.flowSpeed,
                              !.spiralFlowWaves = saved.waves]
            ELSE base

\* focusEffect (249-262)
focusEffect(p, effectName, loadParams) ==
    LET p1 == IF p.focusedEffect # NoEffect /\ p.focusedEffect # effectName
              THEN saveParamsToEffect(p, p.focusedEffect)
              ELSE p
        p2 == [p1 EXCEPT !.focusedEffect = effectName]
    IN IF loadParams THEN loadParamsFromEffect(p2, effectName) ELSE p2

\* toggleEffect that zeroes the animators and restores the default intensity
\* of 5 when it ends a return to rest
toggleEffectCompletesFade(p, effectName) ==
    LET p0 == IF p.isReturning
              THEN [p EXCEPT !.isReturning = FALSE,
                             !.disperseAmount = 0,
                             !.spiralFlowProgress = 0,
                             !.effectIntensity = 5000,
                             !.effectParams = [e \in Effects |->
                                 [p.effectParams[e] EXCEPT
                                      !.intensity = 5000]]]
              ELSE p
        isActive == p0.activeEffects[effectName]
        withType(q) == [q EXCEPT !.effectType = legacyEffectType(q.activeEffects)]
    IN IF isActive /\ p0.focusedEffect = effectName
       THEN loadParamsFromEffect(p0, effectName)
       ELSE IF isActive
       THEN withType(focusEffect(p0, effectName, FALSE))
       ELSE LET p1 == focusEffect([p0 EXCEPT !.activeEffects[effectName] = TRUE],
                                  effectName, FALSE)
                p2 == IF effectName = "disperse"
                      THEN [p1 EXCEPT !.disperseTarget = 1000] ELSE p1
                p3 == IF effectName = "spiralFlow"
                      THEN [p2 EXCEPT !.spiralFlowActive = TRUE,
                                      !.spiralFlowProgress = 0]
                      ELSE p2
            IN withType(p3)

\* toggleEffect that loads the saved values whenever it moves the focus
toggleEffectLoadsOnFocus(p, effectName) ==
    LET p0 == [p EXCEPT !.isReturning = FALSE]
        isActive == p0.activeEffects[effectName]
        withType(q) == [q EXCEPT !.effectType = legacyEffectType(q.activeEffects)]
    IN IF isActive /\ p0.focusedEffect = effectName
       THEN loadParamsFromEffect(p0, effectName)
       ELSE IF isActive
       THEN withType(focusEffect(p0, effectName, TRUE))
       ELSE LET p1 == focusEffect([p0 EXCEPT !.activeEffects[effectName] = TRUE],
                                  effectName, FALSE)
                p2 == IF effectName = "disperse"
                      THEN [p1 EXCEPT !.disperseTarget = 1000] ELSE p1
                p3 == IF effectName = "spiralFlow"
                      THEN [p2 EXCEPT !.spiralFlowActive = TRUE,
                                      !.spiralFlowProgress = 0]
                      ELSE p2
            IN withType(p3)

\* toggleEffect (265-297)
toggleEffect(p, effectName) ==
    LET p0 == [p EXCEPT !.isReturning = FALSE]
        isActive == p0.activeEffects[effectName]
        withType(q) == [q EXCEPT !.effectType = legacyEffectType(q.activeEffects)]
    IN IF isActive /\ p0.focusedEffect = effectName
       THEN loadParamsFromEffect(p0, effectName)
       ELSE IF isActive
       THEN withType(focusEffect(p0, effectName, FALSE))
       ELSE LET p1 == focusEffect([p0 EXCEPT !.activeEffects[effectName] = TRUE],
                                  effectName, FALSE)
                p2 == IF effectName = "disperse"
                      THEN [p1 EXCEPT !.disperseTarget = 1000] ELSE p1
                p3 == IF effectName = "spiralFlow"
                      THEN [p2 EXCEPT !.spiralFlowActive = TRUE,
                                      !.spiralFlowProgress = 0]
                      ELSE p2
            IN withType(p3)

\* stopEffect that leaves the focus where it is
stopEffectKeepsFocus(p, effectName) ==
    LET p1 == [p EXCEPT !.activeEffects[effectName] = FALSE]
        p2 == IF effectName = "disperse"
              THEN [p1 EXCEPT !.disperseTarget = 0] ELSE p1
        p3 == IF effectName = "spiralFlow"
              THEN [p2 EXCEPT !.spiralFlowActive = FALSE] ELSE p2
    IN [p3 EXCEPT !.effectType = legacyEffectType(p3.activeEffects)]

\* stopEffect (300-330)
stopEffect(p, effectName) ==
    LET p1 == [p EXCEPT !.activeEffects[effectName] = FALSE]
        p2 == IF effectName = "disperse"
              THEN [p1 EXCEPT !.disperseTarget = 0] ELSE p1
        p3 == IF effectName = "spiralFlow"
              THEN [p2 EXCEPT !.spiralFlowActive = FALSE] ELSE p2
        p4 == IF p3.focusedEffect = effectName
              THEN IF activeList(p3.activeEffects) # <<>>
                   THEN focusEffect(p3, Head(activeList(p3.activeEffects)), FALSE)
                   ELSE [p3 EXCEPT !.focusedEffect = NoEffect]
              ELSE p3
    IN [p4 EXCEPT !.effectType = legacyEffectType(p4.activeEffects)]

\* the RETURN button (396-408)
returnToRest(p) == [p EXCEPT !.isReturning = TRUE, !.disperseTarget = 0]

\* the STOP ALL button (411-428), resetAllButtons (216-222) included
stopAll(p) ==
    [p EXCEPT !.isReturning = FALSE,
              !.activeEffects = [e \in Effects |-> FALSE],
              !.effectType = NoEffect,
              !.disperseTarget = 0,
              !.spiralFlowActive = FALSE,
              !.focusedEffect = NoEffect]

\* the "Effect Type" dropdown (95-110)
selectEffectType(p, type) ==
    [p EXCEPT !.effectType = type,
              !.disperseTarget = IF type = "disperse" THEN 1000 ELSE 0,
              !.spiralFlowActive = (type = "spiralFlow")]

\* the Intensity and Effect Speed sliders (447-462): the field is set, then
\* the change is saved to the focused effect
setEffectIntensity(p, v) ==
    saveParamsToEffect([p EXCEPT !.effectIntensity = v], p.focusedEffect)
setEffectSpeed(p, v) ==
    saveParamsToEffect([p EXCEPT !.effectSpeed = v], p.focusedEffect)

\* the Flow Speed and Wave Groups sliders (463-478)
setSpiralFlowSpeed(p, v) ==
    LET q == [p EXCEPT !.spiralFlowSpeed = v]
    IN IF q.focusedEffect = "spiralFlow" THEN saveParamsToEffect(q, "spiralFlow")
       ELSE q
setSpiralFlowWaves(p, v) ==
    LET q == [p EXCEPT !.spiralFlowWaves = v]
    IN IF q.focusedEffect = "spiralFlow" THEN saveParamsToEffect(q, "spiralFlow")
       ELSE q

-----------------------------------------------------------------------------
(* mystiqueFade.js *)

FADE_RATE == 992
FADE_THRESHOLD == 50
DEFAULT_INTENSITY == 5000

\* x *= FADE_RATE
fade(x) == (x * FADE_RATE) \div 1000

\* completeFade that leaves the transient amounts as the decay left them
completeFadeKeepsTransients(p) ==
    [p EXCEPT !.effectType = NoEffect,
              !.activeEffects = [e \in Effects |-> FALSE],
              !.isReturning = FALSE,
              !.spiralFlowActive = FALSE,
              !.effectIntensity = DEFAULT_INTENSITY,
              !.effectParams = [e \in Effects |->
                  [p.effectParams[e] EXCEPT !.intensity = DEFAULT_INTENSITY]],
              !.focusedEffect = NoEffect]

\* completeFade (73-99); _resetAllButtons (gui.js 216-222) clears the focus too
completeFade(p) ==
    [p EXCEPT !.effectType = NoEffect,
              !.activeEffects = [e \in Effects |-> FALSE],
              !.isReturning = FALSE,
              !.spiralFlowActive = FALSE,
              !.disperseAmount = 0,
              !.spiralFlowProgress = 0,
              !.effectIntensity = DEFAULT_INTENSITY,
              !.effectParams = [e \in Effects |->
                  [p.effectParams[e] EXCEPT !.intensity = DEFAULT_INTENSITY]],
              !.focusedEffect = NoEffect]

\* the decay step of processMystiqueFade (43-54)
fadeStep(p) ==
    [p EXCEPT !.effectIntensity = fade(@),
              !.effectParams = [e \in Effects |->
                  [p.effectParams[e] EXCEPT !.intensity = fade(@)]],
              !.disperseAmount = fade(@),
              !.spiralFlowProgress = fade(@)]

\* allFaded (57-60)
allFaded(p) ==
    /\ p.effectIntensity < FADE_THRESHOLD
    /\ p.disperseAmount < FADE_THRESHOLD
    /\ p.spiralFlowProgress < FADE_THRESHOLD

\* processMystiqueFade (39-68)
processMystiqueFade(p) ==
    IF ~p.isReturning THEN p
    ELSE IF allFaded(fadeStep(p)) THEN completeFade(fadeStep(p))
    ELSE fadeStep(p)

-----------------------------------------------------------------------------
(* main.js animate (1494-1531): the global animators *)

\* the global animators with a smoothing factor of 2 in place of 0.02
advanceGlobalAnimatorsOvershoots(p, delta) ==
    LET step == ((p.disperseTarget - p.disperseAmount) * 2000 * p.effectSpeed)
                    \div 1000000
        flowing == p.spiralFlowActive \/ p.effectType = "spiralFlow"
    IN [p EXCEPT !.disperseAmount = @ + step,
                 !.spiralFlowProgress =
                     IF flowing THEN @ + (delta * p.spiralFlowSpeed) \div 1000
                     ELSE (@ * 950) \div 1000]

\* lines 1509-1523: effect time is advanced by the caller; disperseAmount is
\* smoothed toward its target, spiralFlowProgress advances or decays
advanceGlobalAnimators(p, delta) ==
    LET step == ((p.disperseTarget - p.disperseAmount) * 20 * p.effectSpeed)
                    \div 1000000
        flowing == p.spiralFlowActive \/ p.effectType = "spiralFlow"
    IN [p EXCEPT !.disperseAmount = @ + step,
                 !.spiralFlowProgress =
                     IF flowing THEN @ + (delta * p.spiralFlowSpeed) \div 1000
                     ELSE (@ * 950) \div 1000]

-----------------------------------------------------------------------------
(* Fixed-point arithmetic and trigonometry.  Angles are thousandths of a     *)
(* radian; Math.sin is modelled by Bhaskara's rational approximation         *)
(* sin x = 16 x (pi - x) / (5 pi^2 - 4 x (pi - x)) on [0, pi], extended by   *)
(* symmetry; its error is below 0.002.                                       *)

\* a * b / 1000, the quotient and the remainder of a multiplied apart so that
\* the product stays in range for the clock readings of a long run
fmul(a, b) == (a \div 1000) * b + ((a % 1000) * b) \div 1000

halfSine(x) ==
    LET q == (x * (3142 - x)) \div 1000
    IN (16000 * q) \div (5 * 9872 - 4 * q)

Sin(x) ==
    LET r == x % 6284
    IN IF r <= 3142 THEN halfSine(r) ELSE -halfSine(r - 3142)

Cos(x) == Sin(x + 1571)

-----------------------------------------------------------------------------
(* The chaos driver (src/unnamed/part_003) *)

PHI == 1618
FIBONACCI == <<1, 1, 2, 3, 5, 8, 13, 21, 34, 55, 89, 144, 233, 377, 610>>
EFFECTS == <<"hover", "wave", "spiral", "noise", "disperse", "spiralFlow">>
MAX_ACTIVE_EFFECTS == 3

\* the module state as lines 25-31 initialise it
InitChaos ==
    [isRunning |-> FALSE, startTime |-> 0, lastEventTime |-> 0, fibIndex |-> 0,
     entropy |-> 100, colorHue |-> 0, cycleCount |-> 0]

\* quantumProbability that is not scaled by the entropy
quantumProbabilityUnscaled(effectIndex, time, ent) ==
    LET phase1 == Sin(fmul(time, PHI) + effectIndex * 2400)
        phase2 == Cos((time * 1000) \div PHI + effectIndex * 1942)
        interference == (phase1 + phase2) \div 2
    IN (interference + 1000) \div 2

\* quantumProbability (52-61); effectIndex counts from 0
quantumProbability(effectIndex, time, ent) ==
    LET phase1 == Sin(fmul(time, PHI) + effectIndex * 2400)
        phase2 == Cos((time * 1000) \div PHI + effectIndex * 1942)
        interference == (phase1 + phase2) \div 2
    IN fmul((interference + 1000) \div 2, ent)

\* fibonacciIntensity (66-70)
fibonacciIntensity(time, baseIntensity) ==
    LET fibPhase == FIBONACCI[((time \div 1000) % Len(FIBONACCI)) + 1]
        oscillation == Sin(fmul(time, 3142) \div fibPhase)
    IN fmul(baseIntensity, 1000 + oscillation \div 2)

\* goldenHue (75-77): (time * GOLDEN_ANGLE) % 360
goldenHue(time) == (time * 137 + fmul(time, 508)) % 360000

\* hslToHex (82-94): the three colour bytes
hslToHex(h, s, l) ==
    LET s1 == s \div 100
        l1 == l \div 100
        a == fmul(s1, Min(l1, 1000 - l1))
        f(n) == LET k == (n * 1000 + h \div 30) % 12000
                    color == l1 - fmul(a, Max(Min(Min(k - 3000, 9000 - k), 1000),
                                              -1000))
                IN (255 * color + 500) \div 1000
    IN <<f(0), f(8), f(4)>>

\* startChaosMix (116-137); first is Math.floor(Math.random() * 3), hue is
\* Math.random() * 360
startChaosMix(p, c, first, hue) ==
    LET firstEffect == EFFECTS[first + 1]
    IN [c |-> [isRunning |-> TRUE, startTime |-> now, lastEventTime |-> now,
               fibIndex |-> 0, entropy |-> 200, colorHue |-> hue,
               cycleCount |-> 0],
        p |-> [p EXCEPT !.activeEffects[firstEffect] = TRUE,
                        !.focusedEffect = firstEffect,
                        !.effectParams[firstEffect].intensity = 10000,
                        !.effectParams[firstEffect].speed = 1000]]

\* stopChaosMix (142-158)
stopChaosMix(p, c) ==
    [c |-> [c EXCEPT !.isRunning = FALSE],
     p |-> [p EXCEPT !.isReturning = TRUE,
                     !.disperseTarget = 0,
                     !.activeEffects = [e \in Effects |-> FALSE],
                     !.focusedEffect = NoEffect]]

\* the activation branch of triggerFibonacciEvent (217-240)
chaosActivate(p, effectName, ent) ==
    LET baseIntensity == IF effectName = "noise" THEN 3000
                         ELSE IF effectName = "disperse" THEN 8000 ELSE 10000
        intensity == baseIntensity + ent * 5
        speed == 500 + ent \div 2
    IN [p EXCEPT !.activeEffects[effectName] = TRUE,
                 !.focusedEffect = effectName,
                 !.effectParams[effectName].intensity = intensity,
                 !.effectParams[effectName].speed = speed,
                 !.effectIntensity = intensity,
                 !.effectSpeed = speed]

\* triggerFibonacciEvent that sheds the drawn effect only above the cap
triggerFibonacciEventAboveCap(p, ent, elapsed, effectIndex, high) ==
    LET activeCount == activeCountOf(p.activeEffects)
        effectName == EFFECTS[effectIndex + 1]
        prob == quantumProbability(effectIndex, elapsed, ent)
        p1 == IF /\ prob > 400
                 /\ ~p.activeEffects[effectName]
                 /\ activeCount < MAX_ACTIVE_EFFECTS
              THEN chaosActivate(p, effectName, ent)
              ELSE IF /\ p.activeEffects[effectName]
                      /\ (prob < 300 \/ activeCount > MAX_ACTIVE_EFFECTS)
              THEN [p EXCEPT !.activeEffects[effectName] = FALSE]
              ELSE p
        p2 == IF p1.activeEffects["disperse"]
              THEN [p1 EXCEPT !.disperseTarget = IF high THEN 1000 ELSE 500]
              ELSE p1
    IN IF p2.activeEffects["spiralFlow"]
       THEN [p2 EXCEPT !.spiralFlowActive = TRUE]
       ELSE p2

\* triggerFibonacciEvent (200-266); effectIndex is
\* Math.floor(Math.random() * EFFECTS.length), high is Math.random() > 0.5
triggerFibonacciEvent(p, ent, elapsed, effectIndex, high) ==
    LET activeCount == activeCountOf(p.activeEffects)
        effectName == EFFECTS[effectIndex + 1]
        prob == quantumProbability(effectIndex, elapsed, ent)
        p1 == IF /\ prob > 400
                 /\ ~p.activeEffects[effectName]
                 /\ activeCount < MAX_ACTIVE_EFFECTS
              THEN chaosActivate(p, effectName, ent)
              ELSE IF /\ p.activeEffects[effectName]
                      /\ (prob < 300 \/ activeCount >= MAX_ACTIVE_EFFECTS)
              THEN [p EXCEPT !.activeEffects[effectName] = FALSE]
              ELSE p
        p2 == IF p1.activeEffects["disperse"]
              THEN [p1 EXCEPT !.disperseTarget = IF high THEN 1000 ELSE 500]
              ELSE p1
    IN IF p2.activeEffects["spiralFlow"]
       THEN [p2 EXCEPT !.spiralFlowActive = TRUE]
       ELSE p2

\* evolveEffects (271-303); index is the effect's place in
\* Object.keys(params.effectParams), from 0
evolvedParams(saved, effectName, index, elapsed, ent) ==
    LET maxIntensity == IF effectName = "noise" THEN 8000
                        ELSE IF effectName = "disperse" THEN 15000 ELSE 20000
        baseIntensity == 3000 + fmul(ent, maxIntensity - 3000)
        speed == 300 + fmul(fmul(Sin(fmul(elapsed, PHI) \div (index + 1)), 300), ent)
    IN [saved EXCEPT !.intensity =
                         fibonacciIntensity(elapsed + index * PHI, baseIntensity),
                     !.speed = 300 + speed]

evolveEffects(p, elapsed, ent) ==
    LET ep == [e \in Effects |->
                  IF p.activeEffects[e]
                  THEN evolvedParams(p.effectParams[e], e,
                           (CHOOSE i \in 1..Len(EffectNames) : EffectNames[i] = e) - 1,
                           elapsed, ent)
                  ELSE p.effectParams[e]]
        p1 == [p EXCEPT !.effectParams = ep]
    IN IF p1.focusedEffect # NoEffect /\ p1.activeEffects[p1.focusedEffect]
       THEN [p1 EXCEPT !.effectIntensity = ep[p1.focusedEffect].intensity,
                       !.effectSpeed = ep[p1.focusedEffect].speed]
       ELSE p1

\* evolveBloom (308-318)
evolveBloom(p, elapsed, ent) ==
    LET fibValue == FIBONACCI[((elapsed \div 2000) % Len(FIBONACCI)) + 1]
    IN [p EXCEPT !.bloomStrength =
                     500 + fmul(Sin(fmul(elapsed, PHI) \div fibValue) \div 2, ent)
                         + ent \div 2,
                 !.bloomRadius =
                     300 + fmul(Cos((elapsed * 1000) \div PHI) \div 5, ent)]

\* evolveColor (323-343): the new hue, and the colour it gives
evolvedHue(elapsed) == goldenHue((elapsed * 3) \div 10)

evolveColor(p, elapsed, ent) ==
    LET satIndex == (elapsed \div 1000) % Len(FIBONACCI)
        saturation == 80000 + 20 * Sin(fmul(elapsed, 3142) \div FIBONACCI[satIndex + 1])
        lightness == 55000 + ent * 10
    IN [p EXCEPT !.color = hslToHex(evolvedHue(elapsed), saturation, lightness)]

\* processChaosMix whose gaps stay at the last Fibonacci number once the
\* sequence is used up
processChaosMixNoWrap(p, c, t, effectIndex, high) ==
    IF ~c.isRunning THEN [p |-> p, c |-> c]
    ELSE LET elapsed == t - c.startTime
             ent == Min(1000, 200 + (elapsed * 20) \div 1000)
             nextEventTime == c.lastEventTime
                 + FIBONACCI[Min(c.fibIndex, Len(FIBONACCI) - 1) + 1] * 500
             fires == t >= nextEventTime
             p1 == IF fires
                   THEN triggerFibonacciEvent(p, ent, elapsed, effectIndex, high)
                   ELSE p
             c1 == IF fires
                   THEN [c EXCEPT !.lastEventTime = t, !.fibIndex = @ + 1,
                                  !.cycleCount = @ + 1]
                   ELSE c
         IN [p |-> evolveBloom(evolveColor(evolveEffects(p1, elapsed, ent),
                                           elapsed, ent), elapsed, ent),
             c |-> [c1 EXCEPT !.entropy = ent,
                              !.colorHue = evolvedHue(elapsed)]]

\* processChaosMix without the early return of an idle driver
processChaosMixWhileIdle(p, c, t, effectIndex, high) ==
    LET elapsed == t - c.startTime
        ent == Min(1000, 200 + (elapsed * 20) \div 1000)
        nextEventTime == c.lastEventTime
            + FIBONACCI[(c.fibIndex % Len(FIBONACCI)) + 1] * 500
        fires == t >= nextEventTime
        p1 == IF fires
              THEN triggerFibonacciEvent(p, ent, elapsed, effectIndex, high)
              ELSE p
        c1 == IF fires
              THEN [c EXCEPT !.lastEventTime = t, !.fibIndex = @ + 1,
                             !.cycleCount = @ + 1]
              ELSE c
    IN [p |-> evolveBloom(evolveColor(evolveEffects(p1, elapsed, ent),
                                      elapsed, ent), elapsed, ent),
        c |-> [c1 EXCEPT !.entropy = ent,
                         !.colorHue = evolvedHue(elapsed)]]

\* processChaosMix whose entropy is not clamped at 1
processChaosMixUnclamped(p, c, t, effectIndex, high) ==
    IF ~c.isRunning THEN [p |-> p, c |-> c]
    ELSE LET elapsed == t - c.startTime
             ent == 200 + (elapsed * 20) \div 1000
             nextEventTime == c.lastEventTime
                 + FIBONACCI[(c.fibIndex % Len(FIBONACCI)) + 1] * 500
             fires == t >= nextEventTime
             p1 == IF fires
                   THEN triggerFibonacciEvent(p, ent, elapsed, effectIndex, high)
                   ELSE p
             c1 == IF fires
                   THEN [c EXCEPT !.lastEventTime = t, !.fibIndex = @ + 1,
                                  !.cycleCount = @ + 1]
                   ELSE c
         IN [p |-> evolveBloom(evolveColor(evolveEffects(p1, elapsed, ent),
                                           elapsed, ent), elapsed, ent),
             c |-> [c1 EXCEPT !.entropy = ent,
                              !.colorHue = evolvedHue(elapsed)]]

\* processChaosMix (171-195) at clock reading t
processChaosMix(p, c, t, effectIndex, high) ==
    IF ~c.isRunning THEN [p |-> p, c |-> c]
    ELSE LET elapsed == t - c.startTime
             ent == Min(1000, 200 + (elapsed * 20) \div 1000)
             nextEventTime == c.lastEventTime
                 + FIBONACCI[(c.fibIndex % Len(FIBONACCI)) + 1] * 500
             fires == t >= nextEventTime
             p1 == IF fires
                   THEN triggerFibonacciEvent(p, ent, elapsed, effectIndex, high)
                   ELSE p
             c1 == IF fires
                   THEN [c EXCEPT !.lastEventTime = t, !.fibIndex = @ + 1,
                                  !.cycleCount = @ + 1]
                   ELSE c
         IN [p |-> evolveBloom(evolveColor(evolveEffects(p1, elapsed, ent),
                                           elapsed, ent), elapsed, ent),
             c |-> [c1 EXCEPT !.entropy = ent,
                              !.colorHue = evolvedHue(elapsed)]]

-----------------------------------------------------------------------------
(* instancedMesh.js: the displacement of one instance.  Positions are        *)
(* <<x, y, z>> in thousandths of a world unit, times in thousandths of a     *)
(* second.                                                                   *)

\* state.js 38
modelCenter == <<0, 50000, 0>>

\* Math.sqrt on thousandths, by bisection on tenths
RECURSIVE sqrtBetween(_, _, _)
sqrtBetween(v, lo, hi) ==
    IF hi - lo <= 1 THEN lo
    ELSE LET mid == (lo + hi) \div 2
         IN IF mid * mid <= v THEN sqrtBetween(v, mid, hi)
            ELSE sqrtBetween(v, lo, mid)

\* Math.sqrt(dx * dx + dz * dz), in thousandths
hypot(dx, dz) ==
    LET a == dx \div 100
        b == dz \div 100
    IN sqrtBetween(a * a + b * b, 0, 30000) * 100

\* "activeEffects.X || params.effectType === X"
effectOn(p, e) == p.activeEffects[e] \/ p.effectType = e

\* hover (208-214)
hoverStep(p, t, instanceIndex, pos) ==
    LET q == p.effectParams["hover"]
        time == fmul(t, q.speed)
        phase == instanceIndex * 100
    IN <<pos[1] + fmul(Sin(time * 2 + phase), q.intensity) \div 2,
         pos[2] + (fmul(Sin(time * 3 + (phase * 13) \div 10), q.intensity) * 3)
                      \div 10,
         pos[3] + (fmul(Cos((time * 5) \div 2 + (phase * 7) \div 10),
                        q.intensity) * 4) \div 10>>

\* disperse (217-226); dirs is disperseDirections
disperseStep(p, dirs, instanceIndex, pos) ==
    IF instanceIndex + 1 > Len(dirs) THEN pos
    ELSE LET dir == dirs[instanceIndex + 1]
             distance == fmul(p.disperseAmount, p.effectParams["disperse"].intensity)
                             * 10
         IN <<pos[1] + fmul(dir[1], distance),
              pos[2] + fmul(dir[2], distance),
              pos[3] + fmul(dir[3], distance)>>

\* noise (229-236)
noiseStep(p, t, instanceIndex, pos) ==
    LET q == p.effectParams["noise"]
        time == fmul(t, q.speed)
        noiseScale == q.intensity \div 2
    IN <<pos[1] + fmul(Sin(time * 10 + instanceIndex * 100000), noiseScale),
         pos[2] + fmul(Cos(time * 12 + instanceIndex * 73000), noiseScale),
         pos[3] + fmul(Sin(time * 8 + instanceIndex * 47000), noiseScale)>>

\* wave (239-244): the offset reads the y the earlier effects have left
waveStep(p, t, pos) ==
    LET q == p.effectParams["wave"]
        time == fmul(t, q.speed)
        waveOffset == fmul(Sin(time * 2 + pos[2] \div 20), q.intensity)
    IN <<pos[1] + waveOffset, pos[2], pos[3]>>

\* spiral (247-254)
spiralStep(p, t, instanceIndex, pos) ==
    LET q == p.effectParams["spiral"]
        time == fmul(t, q.speed)
        angle == time * 2 + instanceIndex * 100
        radius == q.intensity \div 2
    IN <<pos[1] + fmul(Cos(angle), radius), pos[2],
         pos[3] + fmul(Sin(angle), radius)>>

\* easeInOutCubic (264-266)
easeInOutCubic(x) ==
    IF x < 500 THEN 4 * fmul(fmul(x, x), x)
    ELSE LET u == 2000 - 2 * x
         IN 1000 - fmul(fmul(u, u), u) \div 2

\* the progress of one character (288-301)
charProgress(progress, charStartTime) ==
    LET charEndTime == charStartTime + 500
    IN IF progress <= charStartTime THEN 0
       ELSE IF progress < charEndTime
       THEN ((progress - charStartTime) * 1000) \div 500
       ELSE IF progress < charEndTime + 300
       THEN 1000 - ((progress - charEndTime) * 1000) \div 300
       ELSE 0

\* applySpiralFlowEffect (271-326)
applySpiralFlowEffect(p, instanceIndex, pos, time, effectParam) ==
    LET intensity == effectParam.intensity
        waves == effectParam.waves
        normalizedY == (pos[2] + 50000) \div 250
        waveIndex == (normalizedY * waves) \div 1000
        wavePhase == (waveIndex * 1000) \div waves
        randomOffset == (instanceIndex % 100) * 3
        charStartTime == wavePhase \div 2 + randomOffset \div 5
        progress == charProgress(p.spiralFlowProgress, charStartTime)
        smoothProgress == easeInOutCubic(Min(progress, 1000))
        spiralRadius == fmul(intensity * 3, smoothProgress)
        spiralHeight == fmul(intensity * 2, smoothProgress)
        angleOffset == instanceIndex * 10 + fmul(wavePhase, 6283)
        spiralAngle == time * 3 + angleOffset + fmul(smoothProgress, 12566)
        dirX == pos[1] - modelCenter[1]
        dirZ == pos[3] - modelCenter[3]
        len == hypot(dirX, dirZ)
        dirLen == IF len = 0 THEN 1000 ELSE len
        outwardDist == fmul(intensity * 2, smoothProgress)
    IN IF p.spiralFlowProgress <= 0 \/ progress <= 0 THEN pos
       ELSE <<pos[1] + fmul((dirX * 1000) \div dirLen, outwardDist)
                     + fmul(Cos(spiralAngle), spiralRadius),
              pos[2] + fmul(Sin(fmul(smoothProgress, 3142)), spiralHeight),
              pos[3] + fmul((dirZ * 1000) \div dirLen, outwardDist)
                     + fmul(Sin(spiralAngle), spiralRadius)>>

\* applyEffects (198-262): the position after the effects, applied in the
\* order hover, disperse, noise, wave, spiral, spiralFlow
applyEffects(p, t, dirs, instanceIndex, position) ==
    LET hasActiveEffect == \E e \in Effects : p.activeEffects[e]
        a == IF effectOn(p, "hover")
             THEN hoverStep(p, t, instanceIndex, position) ELSE position
        b == IF effectOn(p, "disperse")
             THEN disperseStep(p, dirs, instanceIndex, a) ELSE a
        c == IF effectOn(p, "noise") THEN noiseStep(p, t, instanceIndex, b) ELSE b
        d == IF effectOn(p, "wave") THEN waveStep(p, t, c) ELSE c
        e == IF effectOn(p, "spiral") THEN spiralStep(p, t, instanceIndex, d) ELSE d
    IN IF ~hasActiveEffect /\ p.effectType = NoEffect THEN position
       ELSE IF effectOn(p, "spiralFlow")
       THEN applySpiralFlowEffect(p, instanceIndex, e,
                fmul(t, p.effectParams["spiralFlow"].speed),
                p.effectParams["spiralFlow"])
       ELSE e

-----------------------------------------------------------------------------
(* State after construction: the meshes are loaded (fbxLoader), nothing is   *)
(* sampled, no instanced mesh exists, the parameter bag holds its defaults.  *)

(* skinning.js getSkinnedVertexPosition and instancedMesh.js                 *)
(* updateASCIIPositions.  A Matrix4 is modelled by the transforms the model  *)
(* uses: a uniform scale s (thousandths) followed by a translation d.  A     *)
(* skinned mesh carries, next to the fields the sampler reads, skinIndex and *)
(* skinWeight (four per vertex, weights in thousandths), bindMatrix,         *)
(* bindMatrixInverse, matrixWorld, and per bone boneMatrixWorld and          *)
(* boneInverses.                                                             *)

Matrix4(s, d) == [s |-> s, d |-> d]
Identity4 == Matrix4(1000, <<0, 0, 0>>)
Translation(d) == Matrix4(1000, d)

\* Vector3.applyMatrix4
applyMatrix4(v, m) == [k \in 1..3 |-> fmul(m.s, v[k]) + m.d[k]]

\* Matrix4.multiplyMatrices(a, b): b first, then a
multiplyMatrices(a, b) ==
    Matrix4(fmul(a.s, b.s), [k \in 1..3 |-> fmul(a.s, b.d[k]) + a.d[k]])

\* Vector3.fromBufferAttribute(position, vertexIndex): the planar position in
\* thousandths of a world unit
restVertex(mesh, vertexIndex) ==
    <<mesh.pos[vertexIndex + 1][1] * 1000, mesh.pos[vertexIndex + 1][2] * 1000, 0>>

\* what a call that throws a TypeError leaves in place of a position
Thrown == <<>>

\* the vertexIndex of a descriptor that has no such field: undefined, which
\* like any index outside the attribute reads undefined from it
NoVertexIndex == -1

\* the loop over the four influences (62-91), from influence i on
RECURSIVE influenceLoop(_, _, _, _, _)
influenceLoop(mesh, vertexIndex, vertex, i, target) ==
    IF i > 4 THEN target
    ELSE LET weight == mesh.skinWeight[vertexIndex + 1][i]
             boneIndex == mesh.skinIndex[vertexIndex + 1][i]
         IN IF weight = 0
            THEN influenceLoop(mesh, vertexIndex, vertex, i + 1, target)
            ELSE IF boneIndex < 0 \/ boneIndex >= Len(mesh.bones)
            THEN influenceLoop(mesh, vertexIndex, vertex, i + 1, target)
            ELSE LET tempMatrix ==
                         multiplyMatrices(mesh.boneMatrixWorld[boneIndex + 1],
                                          mesh.boneInverses[boneIndex + 1])
                     tempVertex == applyMatrix4(vertex, tempMatrix)
                 IN influenceLoop(mesh, vertexIndex, vertex, i + 1,
                        [k \in 1..3 |-> target[k] + fmul(tempVertex[k], weight)])

\* getSkinnedVertexPosition without the early return for a total weight of 0
getSkinnedVertexPositionNoFallback(vertexIndex, mesh) ==
    IF vertexIndex \notin 0..(mesh.vertexCount - 1) THEN Thrown
    ELSE LET vertex == restVertex(mesh, vertexIndex)
             bound == applyMatrix4(vertex, mesh.bindMatrix)
             target == influenceLoop(mesh, vertexIndex, bound, 1, <<0, 0, 0>>)
         IN applyMatrix4(applyMatrix4(target, mesh.bindMatrixInverse),
                         mesh.matrixWorld)

\* getSkinnedVertexPosition (16-99).  With a vertexIndex outside the
\* attributes every read gives undefined: the total weight is NaN, no weight
\* is === 0, no bone index fails the bounds test, and
\* skeleton.bones[undefined].matrixWorld throws.
getSkinnedVertexPosition(vertexIndex, mesh) ==
    IF vertexIndex \notin 0..(mesh.vertexCount - 1) THEN Thrown
    ELSE LET vertex == restVertex(mesh, vertexIndex)
             weights == mesh.skinWeight[vertexIndex + 1]
             totalWeight == weights[1] + weights[2] + weights[3] + weights[4]
         IN IF totalWeight = 0
            THEN applyMatrix4(vertex, mesh.matrixWorld)
            ELSE LET bound == applyMatrix4(vertex, mesh.bindMatrix)
                     target == influenceLoop(mesh, vertexIndex, bound, 1,
                                             <<0, 0, 0>>)
                 IN applyMatrix4(applyMatrix4(target, mesh.bindMatrixInverse),
                                 mesh.matrixWorld)

\* the position updateASCIIPositions (103-160) computes for one descriptor
\* before the effects: the branch of its type, or the last branch for a type
\* that has none
samplePosition(sample, mesh) ==
    LET P(i) == getSkinnedVertexPosition(sample.verts[i], mesh)
    IN IF sample.type = "faceCenter"
       THEN [k \in 1..3 |-> (P(1)[k] + P(2)[k] + P(3)[k]) \div 3]
       ELSE IF sample.type = "edgePoint"
       THEN [k \in 1..3 |-> P(1)[k] + fmul(P(2)[k] - P(1)[k], sample.param[1])]
       ELSE IF sample.type = "interior"
       THEN [k \in 1..3 |->
                (P(1)[k] * sample.param[1] + P(2)[k] * sample.param[2]
                 + P(3)[k] * sample.param[3]) \div sample.param[4]]
       ELSE IF sample.type = "edgeMidpoint"
       THEN [k \in 1..3 |-> (P(1)[k] + P(2)[k]) \div 2]
       ELSE getSkinnedVertexPosition(
                IF sample.type = "vertex" THEN sample.verts[1] ELSE NoVertexIndex,
                mesh)

\* the forEach of updateASCIIPositions (103-188) from instance i on: each
\* instance gets the position of its descriptor after the effects; a throw
\* ends the call and leaves the matrices not yet written as they were
RECURSIVE positionLoop(_, _, _, _, _, _, _)
positionLoop(meshes, samples, p, t, dirs, i, matrices) ==
    IF i > Len(samples) THEN matrices
    ELSE LET sample == samples[i]
             tempPosition == samplePosition(sample, meshes[sample.meshIndex + 1])
         IN IF tempPosition = Thrown THEN matrices
            ELSE positionLoop(meshes, samples, p, t, dirs, i + 1,
                     [matrices EXCEPT
                          ![i] = applyEffects(p, t, dirs, i - 1, tempPosition)])

\* updateASCIIPositions (100-192): the instance matrices after the call, by
\* their position part
updateASCIIPositions(meshes, samples, mesh, p, t, dirs) ==
    IF ~mesh.present \/ Len(meshes) = 0 THEN mesh.matrices
    ELSE positionLoop(meshes, samples, p, t, dirs, 1, mesh.matrices)

-----------------------------------------------------------------------------

(* Skinned meshes and poses.  Both skeletons have two bones; bone 1 sits one *)
(* unit above bone 0 in the bind pose.                                       *)

BindPose == << Identity4, Translation(<<0, 1000, 0>>) >>
MovedPose == << Translation(<<0, 2000, 0>>), Matrix4(2000, <<0, 1000, 0>>) >>
Poses == {BindPose, MovedPose}

Skin(mesh, skinIndex, skinWeight) ==
    mesh @@ [skinIndex |-> skinIndex, skinWeight |-> skinWeight,
             bindMatrix |-> Translation(<<1000, 0, 0>>),
             bindMatrixInverse |-> Translation(<<-1000, 0, 0>>),
             matrixWorld |-> Matrix4(2000, <<0, 0, 2000>>),
             boneInverses |-> << Identity4, Translation(<<0, -1000, 0>>) >>,
             boneMatrixWorld |-> BindPose]

\* vertex 0 has no weight, vertex 1 one influence on a bone the skeleton does
\* not have, vertex 2 one such influence next to a valid one
SkinnedTriangle ==
    Skin(TriangleMesh,
         << <<0, 0, 0, 0>>, <<5, 0, 0, 0>>, <<1, 9, 0, 0>> >>,
         << <<0, 0, 0, 0>>, <<1000, 0, 0, 0>>, <<500, 500, 0, 0>> >>)

\* every influence on a bone of the skeleton
SkinnedTriangleValid ==
    Skin(TriangleMesh,
         << <<0, 0, 0, 0>>, <<0, 1, 0, 0>>, <<1, 0, 0, 0>> >>,
         << <<1000, 0, 0, 0>>, <<500, 500, 0, 0>>, <<0, 0, 0, 0>> >>)

\* the quad, whose tail bone gets bone points; vertex 3 has two influences
\* outside the skeleton, one of them negative
SkinnedQuad ==
    Skin(QuadMesh,
         << <<0, 0, 0, 0>>, <<1, 0, 0, 0>>, <<0, 1, 0, 0>>, <<-1, 2, 0, 0>> >>,
         << <<0, 0, 0, 0>>, <<1000, 0, 0, 0>>, <<500, 500, 0, 0>>,
            <<250, 750, 0, 0>> >>)

SkinnedMeshSets == { <<SkinnedTriangle>>, <<SkinnedTriangleValid>>, <<SkinnedQuad>> }

-----------------------------------------------------------------------------

Caps == (1..MaxCap) \cup {DefaultMaxCharacters}
Densities == 1..MaxDensity
Seeds == 1..MaxSeed
Glyphs == {"block", "at"}
GlyphSizes == {10800, 20000}

\* lastOp names the handler that ran last, its arguments, what a frame's fade
\* tick did, and how many control commands have been issued so far
NoOp == [name |-> "init", arg |-> <<>>, fade |-> "idle", commands |-> 0]

InitFrom(meshSets, caps, paramBags) ==
    /\ skinnedMeshes \in meshSets
    /\ maxCharacters \in caps
    /\ sampledVertexIndices = <<>>
    /\ instancedMesh = [present |-> FALSE, count |-> 0, matrices |-> <<>>]
    /\ currentGeometry = [present |-> FALSE, character |-> "", size |-> 0]
    /\ disperseDirections = <<>>
    /\ params \in paramBags
    /\ effectTime = 0
    /\ chaos = InitChaos
    /\ now = 0
    /\ lastOp = NoOp

InitWith(meshSets, caps, densities) ==
    InitFrom(meshSets, caps,
             {[InitParams EXCEPT !.samplingDensity = d] : d \in densities})

Op(name, arg) ==
    [name |-> name, arg |-> arg, fade |-> "idle", commands |-> lastOp.commands]
Command(name, arg) == [Op(name, arg) EXCEPT !.commands = @ + 1]

-----------------------------------------------------------------------------
(* Handlers of the sampling side *)

\* createCharacterGeometry (geometry.js 12-36)
createCharacterGeometry(p) ==
    currentGeometry' = [present |-> TRUE, character |-> p.character,
                        size |-> p.characterSize]

\* initializeASCIIPointCloud (part_002 12-24), called once by init
initializeASCIIPointCloud(seed) ==
    /\ ~instancedMesh.present
    /\ sampledVertexIndices' =
           sampleSkeletonBones(
               sampleVertices(skinnedMeshes, params.samplingDensity, maxCharacters),
               skinnedMeshes, maxCharacters)
    /\ createCharacterGeometry(params)
    /\ createInstancedMesh(seed)
    /\ lastOp' = Op("initializeASCIIPointCloud", <<params.samplingDensity>>)
    /\ UNCHANGED <<skinnedMeshes, maxCharacters, params, effectTime, chaos, now>>

\* the Sample Density slider (gui.js 42-45) and onSamplingChange
\* (handlers.js 26-29)
onSamplingChange(d, seed) ==
    /\ instancedMesh.present
    /\ params' = [params EXCEPT !.samplingDensity = d]
    /\ sampledVertexIndices' = sampleVertices(skinnedMeshes, d, maxCharacters)
    /\ createInstancedMesh(seed)
    /\ lastOp' = Op("onSamplingChange", <<d>>)
    /\ UNCHANGED <<skinnedMeshes, maxCharacters, currentGeometry, effectTime,
                   chaos, now>>

\* the Character dropdown and the Char Size slider (gui.js 34-50) and
\* onCharacterChange (handlers.js 15-21)
onCharacterChange(glyph, size, seed) ==
    /\ instancedMesh.present
    /\ params' = [params EXCEPT !.character = glyph, !.characterSize = size]
    /\ createCharacterGeometry(params')
    /\ sampledVertexIndices' = sampledVertexIndices
    /\ createInstancedMesh(seed)
    /\ lastOp' = Op("onCharacterChange", <<>>)
    /\ UNCHANGED <<skinnedMeshes, maxCharacters, effectTime, chaos, now>>

\* resetDefaults (handlers.js 65-85)
resetDefaults(seed) ==
    /\ instancedMesh.present
    /\ params' = [params EXCEPT !.character = "block", !.samplingDensity = 1,
                                !.characterSize = 800,
                                !.color = <<0, 255, 255>>,
                                !.bloomStrength = 1500, !.bloomRadius = 400]
    /\ sampledVertexIndices' = sampleVertices(skinnedMeshes, 1, maxCharacters)
    /\ createInstancedMesh(seed)
    /\ lastOp' = Op("resetDefaults", <<>>)
    /\ UNCHANGED <<skinnedMeshes, maxCharacters, currentGeometry, effectTime,
                   chaos, now>>

-----------------------------------------------------------------------------
(* Handlers of the effect engine *)

unchangedByControl == <<skinnedMeshes, maxCharacters, sampledVertexIndices,
                        instancedMesh, currentGeometry, disperseDirections,
                        effectTime, now>>

Control(name, arg, p) ==
    /\ instancedMesh.present
    /\ params' = p
    /\ lastOp' = Command(name, arg)
    /\ UNCHANGED <<unchangedByControl, chaos>>

ToggleEffect(e) == Control("toggleEffect", <<e>>, toggleEffect(params, e))

\* the stop icon is shown on active effects only (updateButtonStyle 143-158)
StopEffect(e) ==
    /\ params.activeEffects[e]
    /\ Control("stopEffect", <<e>>, stopEffect(params, e))

ReturnButton == Control("return", <<>>, returnToRest(params))
StopAllButton == Control("stopAll", <<>>, stopAll(params))
SelectEffectType(type) ==
    Control("selectEffectType", <<type>>, selectEffectType(params, type))
SetEffectIntensity(v) ==
    Control("setEffectIntensity", <<v>>, setEffectIntensity(params, v))
SetEffectSpeed(v) ==
    Control("setEffectSpeed", <<v>>, setEffectSpeed(params, v))
SetSpiralFlowSpeed(v) ==
    Control("setSpiralFlowSpeed", <<v>>, setSpiralFlowSpeed(params, v))
SetSpiralFlowWaves(v) ==
    Control("setSpiralFlowWaves", <<v>>, setSpiralFlowWaves(params, v))

\* the chaos driver's start and stop; the control that calls them is not in
\* src/, and is taken to start an idle driver and to stop a running one
StartChaos(first, hue) ==
    /\ instancedMesh.present
    /\ ~chaos.isRunning
    /\ LET r == startChaosMix(params, chaos, first, hue)
       IN params' = r.p /\ chaos' = r.c
    /\ lastOp' = Command("startChaosMix", <<first>>)
    /\ UNCHANGED unchangedByControl

StopChaos ==
    /\ instancedMesh.present
    /\ chaos.isRunning
    /\ LET r == stopChaosMix(params, chaos)
       IN params' = r.p /\ chaos' = r.c
    /\ lastOp' = Command("stopChaosMix", <<>>)
    /\ UNCHANGED unchangedByControl

-----------------------------------------------------------------------------
(* The frame.  animate (main.js 1494-1531) advances the effect time and the  *)
(* global animators; the version of animate that also calls the chaos tick   *)
(* and the fade tick is not in src/, and the frame is taken to run the chaos *)
(* tick, then the global animators, then the fade tick.  The wall clock      *)
(* advances by the frame's delta up to clockEnd, the horizon of the model;   *)
(* past the horizon the clock reading stays and the effect time starts over, *)
(* so that the frames of an endless loop remain steps.  The instance         *)
(* matrices, which updateASCIIPositions rewrites from the state the frame    *)
(* leaves and which nothing reads back, are followed by animateFrame only.   *)

\* whether the chaos tick at clock reading t fires a Fibonacci event
eventFires(c, t) ==
    /\ c.isRunning
    /\ t >= c.lastEventTime + FIBONACCI[(c.fibIndex % Len(FIBONACCI)) + 1] * 500

\* the parameter bag just before the frame's fade tick
beforeFade(p, c, t, delta, effectIndex, high) ==
    advanceGlobalAnimators(processChaosMix(p, c, t, effectIndex, high).p, delta)

fadeOutcome(q) ==
    IF ~q.isReturning THEN "idle"
    ELSE IF allFaded(fadeStep(q)) THEN "complete" ELSE "fading"

animate(delta, clockEnd, effectIndex, high) ==
    LET t == Min(now + delta, clockEnd)
        r == processChaosMix(params, chaos, t, effectIndex, high)
        q == advanceGlobalAnimators(r.p, delta)
    IN /\ instancedMesh.present
       /\ now' = t
       /\ effectTime' = IF effectTime + delta <= clockEnd
                         THEN effectTime + delta ELSE 0
       /\ chaos' = r.c
       /\ params' = processMystiqueFade(q)
       /\ lastOp' = [Op("animate", <<delta, effectIndex, high>>)
                         EXCEPT !.fade = fadeOutcome(q)]
       /\ UNCHANGED <<skinnedMeshes, maxCharacters, sampledVertexIndices,
                      instancedMesh, currentGeometry, disperseDirections>>

\* a frame that writes the instances before it advances the animators
animateFramePositionsFirst(delta, pose) ==
    LET meshes == [m \in DOMAIN skinnedMeshes |->
                      [skinnedMeshes[m] EXCEPT !.boneMatrixWorld = pose]]
    IN /\ skinnedMeshes' = meshes
       /\ effectTime' = effectTime + delta
       /\ now' = now + delta
       /\ params' = advanceGlobalAnimators(params, delta)
       /\ instancedMesh' =
              [instancedMesh EXCEPT !.matrices =
                  updateASCIIPositions(meshes, sampledVertexIndices,
                                       instancedMesh, params, effectTime,
                                       disperseDirections)]
       /\ lastOp' = Op("animateFrame", <<delta>>)
       /\ UNCHANGED <<maxCharacters, sampledVertexIndices, currentGeometry,
                      disperseDirections, chaos>>

\* animate (main.js 1494-1531) with a mixer: the mixer and skeleton.update
\* leave the bones in the pose of the clip at this time (pose), the effect
\* time and the global animators advance, updateASCIIPositions rewrites the
\* instance matrices
animateFrame(delta, pose) ==
    LET meshes == [m \in DOMAIN skinnedMeshes |->
                      [skinnedMeshes[m] EXCEPT !.boneMatrixWorld = pose]]
        t == effectTime + delta
        p == advanceGlobalAnimators(params, delta)
    IN /\ skinnedMeshes' = meshes
       /\ effectTime' = t
       /\ now' = now + delta
       /\ params' = p
       /\ instancedMesh' =
              [instancedMesh EXCEPT !.matrices =
                  updateASCIIPositions(meshes, sampledVertexIndices,
                                       instancedMesh, p, t, disperseDirections)]
       /\ lastOp' = Op("animateFrame", <<delta>>)
       /\ UNCHANGED <<maxCharacters, sampledVertexIndices, currentGeometry,
                      disperseDirections, chaos>>

\* the effects an event's Math.random() draw picks in the model: wave and
\* disperse
ChaosDraws == {1, 4}

\* a frame whose random draws are enumerated only when an event fires
Frame(delta, clockEnd) ==
    IF eventFires(chaos, Min(now + delta, clockEnd))
    THEN \E effectIndex \in ChaosDraws, high \in BOOLEAN :
             animate(delta, clockEnd, effectIndex, high)
    ELSE animate(delta, clockEnd, 0, FALSE)

-----------------------------------------------------------------------------
(* Specifications *)

\* the sampler: any mesh set, cap and density; every resampling handler
SamplerInit == InitWith(MeshSets, Caps, Densities)
SamplerNext ==
    \/ \E seed \in Seeds : initializeASCIIPointCloud(seed)
    \/ \E d \in Densities, seed \in Seeds : onSamplingChange(d, seed)
    \/ \E g \in Glyphs, z \in GlyphSizes, seed \in Seeds :
           onCharacterChange(g, z, seed)
    \/ \E seed \in Seeds : resetDefaults(seed)
SamplerSpec == SamplerInit /\ [][SamplerNext]_vars

\* the values the sliders are moved to: Intensity 0..300, Effect Speed 0.1..5,
\* Flow Speed 0.1..3, Wave Groups 1..10 (gui.js 447-478)
EditIntensities == {0, 20000}
EditSpeeds == {2000}
EditFlowSpeeds == {2000}
EditWaves == {3}
EffectTypes == {"disperse", "spiralFlow"}
ChaosFirsts == 0..2
ChaosHues == {120000}

EngineInit == InitWith({<<TriangleMesh>>}, {DefaultMaxCharacters}, {1})

\* the effect engine under the control panel: any command at any time,
\* 16 ms frames in between
SpecCommand ==
    \/ \E e \in Effects : ToggleEffect(e)
    \/ \E e \in Effects : StopEffect(e)
    \/ ReturnButton
    \/ StopAllButton
    \/ \E type \in EffectTypes : SelectEffectType(type)
    \/ \E v \in EditIntensities : SetEffectIntensity(v)
    \/ \E v \in EditSpeeds : SetEffectSpeed(v)
    \/ \E v \in EditFlowSpeeds : SetSpiralFlowSpeed(v)
    \/ \E v \in EditWaves : SetSpiralFlowWaves(v)
SpecFrame == now < MaxFrames * 16 /\ Frame(16, MaxFrames * 16)
Next ==
    \/ initializeASCIIPointCloud(1)
    \/ lastOp.commands < MaxCommands /\ SpecCommand
    \/ SpecFrame
Spec == EngineInit /\ [][Next]_vars

\* the skinned point cloud: it is initialized, resampled without bone points,
\* hover is switched on and off, and frames run in which the clip moves the
\* bones
SkinInit == InitWith(SkinnedMeshSets, {DefaultMaxCharacters}, {1})
SkinCommand ==
    \/ \E d \in 1..2 : onSamplingChange(d, 1)
    \/ lastOp.commands < MaxSkinCommands /\ ToggleEffect("hover")
SkinFrame ==
    /\ effectTime < MaxSkinFrames * 16
    /\ \E pose \in Poses : animateFrame(16, pose)
SkinNext ==
    \/ initializeASCIIPointCloud(1)
    \/ SkinCommand
    \/ SkinFrame
SkinSpec == SkinInit /\ [][SkinNext]_vars

\* the chaos driver: it is started and stopped, and frames 5 s apart run
\* while it runs.  The effect state it starts from is the default one or the
\* one three clicks on the effect buttons leave (noise, disperse and
\* spiralFlow active).
HandLayered ==
    toggleEffect(toggleEffect(toggleEffect(InitParams, "noise"), "disperse"),
                 "spiralFlow")
ChaosInit ==
    InitFrom({<<TriangleMesh>>}, {DefaultMaxCharacters}, {InitParams, HandLayered})
ChaosCommand ==
    \/ \E first \in ChaosFirsts, hue \in ChaosHues : StartChaos(first, hue)
    \/ StopChaos
ChaosFrame ==
    /\ chaos.isRunning
    /\ now < MaxChaosClock
    /\ Frame(5000, MaxChaosClock)
ChaosNext ==
    \/ initializeASCIIPointCloud(1)
    \/ lastOp.commands < MaxChaosCommands /\ ChaosCommand
    \/ ChaosFrame
ChaosSpec == ChaosInit /\ [][ChaosNext]_vars

\* the chaos driver's long run: started once and never stopped, frames half a
\* second apart in the first 5 s and 5 s apart after them, every event
\* drawing wave and the lower disperse target, up to the clock reading at
\* which the Fibonacci gaps have wrapped
LongRunFrame ==
    /\ chaos.isRunning
    /\ now < MaxLongRunClock
    /\ animate(IF now < 5000 THEN 500 ELSE 5000, MaxLongRunClock, 1, FALSE)
LongRunNext ==
    \/ initializeASCIIPointCloud(1)
    \/ \E first \in ChaosFirsts, hue \in ChaosHues : StartChaos(first, hue)
    \/ LongRunFrame
LongRunSpec == EngineInit /\ [][LongRunNext]_vars

\* the return to rest: a few commands and frames, then a return request (the
\* RETURN button with the driver idle, or the driver's stop), after which no
\* command is issued and the frame loop keeps running.  The clock stops at
\* MaxSetupFrames frames; the frames do not.
FadeCommand ==
    \/ \E e \in {"disperse", "spiralFlow"} : ToggleEffect(e)
    \/ \E v \in EditIntensities : SetEffectIntensity(v)
    \/ \E first \in ChaosFirsts, hue \in ChaosHues : StartChaos(first, hue)
    \/ StopChaos
    \/ ~chaos.isRunning /\ ReturnButton
FadeFrame ==
    /\ params.isReturning \/ now < MaxSetupFrames * 16
    /\ Frame(16, MaxSetupFrames * 16)
FadeNext ==
    \/ initializeASCIIPointCloud(1)
    \/ /\ ~params.isReturning
       /\ lastOp.commands < MaxSetupCommands
       /\ FadeCommand
    \/ FadeFrame
FadeSpec == EngineInit /\ [][FadeNext]_vars /\ WF_vars(FadeFrame)

-----------------------------------------------------------------------------
(* The sampler's claims *)

\* more than any sampling run can emit: per mesh its vertices, per face a
\* centre, at most 63 interior and 27 edge points, per bone its points
emissionBound(meshes) ==
    1 + SumSeq([i \in 1..Len(meshes) |->
                   meshes[i].vertexCount + faceCountOf(meshes[i]) * 91
                   + Len(meshes[i].bones) * (pointsPerBone + 1)])

\* what point-cloud initialization produces at density d under cap
initialSampling(meshes, d, cap) ==
    sampleSkeletonBones(sampleVertices(meshes, d, cap), meshes, cap)

\* the same runs with no cap
uncappedInitialSampling(meshes, d) ==
    initialSampling(meshes, d, emissionBound(meshes))
uncappedResampling(meshes, d) ==
    sampleVertices(meshes, d, emissionBound(meshes))

afterInitialization == lastOp.name = "initializeASCIIPointCloud"
afterResampling == lastOp.name \in {"onSamplingChange", "resetDefaults"}

\* C1: the sample set never holds more than maxCharacters descriptors, neither
\* after sampleVertices nor after sampleSkeletonBones, and holds exactly
\* maxCharacters of them whenever the same run without a cap emits more
C1_CapRespected ==
    /\ Len(sampledVertexIndices) <= maxCharacters
    /\ afterInitialization =>
          /\ Len(sampleVertices(skinnedMeshes, params.samplingDensity,
                                maxCharacters)) <= maxCharacters
          /\ Len(uncappedInitialSampling(skinnedMeshes, params.samplingDensity))
                 > maxCharacters
             => Len(sampledVertexIndices) = maxCharacters
    /\ afterResampling =>
          (Len(uncappedResampling(skinnedMeshes, params.samplingDensity))
               > maxCharacters
           => Len(sampledVertexIndices) = maxCharacters)

\* the cap binds inside the bone loop of an initialization
C1_Witness ==
    /\ afterInitialization
    /\ Len(sampledVertexIndices) = maxCharacters
    /\ Len(uncappedInitialSampling(skinnedMeshes, params.samplingDensity))
           > maxCharacters
    /\ sampledVertexIndices[Len(sampledVertexIndices)].type = "bonePoint"

\* C9: for a fixed mesh set and density the sample set in effect is the
\* descriptor list that point-cloud initialization produces at that density,
\* bonePoint descriptors included, whichever handler generated it
C9_SameListEveryTime ==
    instancedMesh.present =>
        sampledVertexIndices =
            initialSampling(skinnedMeshes, params.samplingDensity, maxCharacters)

\* C10: the capped sample set is the first maxCharacters descriptors of the
\* uncapped run, in emission order, and nothing is added past the cap
C10_PrefixOfUncapped ==
    /\ afterInitialization =>
          LET full == uncappedInitialSampling(skinnedMeshes, params.samplingDensity)
          IN /\ IsPrefix(sampledVertexIndices, full)
             /\ Len(sampledVertexIndices) = Min(maxCharacters, Len(full))
    /\ afterResampling =>
          LET full == uncappedResampling(skinnedMeshes, params.samplingDensity)
          IN /\ IsPrefix(sampledVertexIndices, full)
             /\ Len(sampledVertexIndices) = Min(maxCharacters, Len(full))

\* the cap binds among a face's interior points, with faces, edges and bone
\* points still to come
C10_Witness ==
    /\ afterInitialization
    /\ Len(sampledVertexIndices) = maxCharacters
    /\ sampledVertexIndices[Len(sampledVertexIndices)].type = "interior"
    /\ \E i \in 1..Len(uncappedInitialSampling(skinnedMeshes,
                                               params.samplingDensity)) :
           uncappedInitialSampling(skinnedMeshes, params.samplingDensity)[i].type
               = "bonePoint"

-----------------------------------------------------------------------------
(* The effect engine's claims *)

allInactive(p) == \A e \in Effects : ~p.activeEffects[e]
sameSavedIntensityAndSpeed(p, q) ==
    \A e \in Effects :
        /\ q.effectParams[e].intensity = p.effectParams[e].intensity
        /\ q.effectParams[e].speed = p.effectParams[e].speed

\* C2: a click on an effect that is active and not focused (a switch of
\* focus, no editable field edited) leaves every effect's saved intensity and
\* speed as they were
C2_SwitchKeepsSaved ==
    [][(/\ lastOp'.name = "toggleEffect"
        /\ params.activeEffects[lastOp'.arg[1]]
        /\ params.focusedEffect # lastOp'.arg[1])
       => sameSavedIntensityAndSpeed(params, params')]_vars

\* C3: on a fade tick with isReturning true, if the decayed global intensity,
\* disperseAmount and spiralFlowProgress are all below 0.05 the tick ends at
\* rest (not returning, nothing active, both amounts 0, the global and every
\* saved intensity 5.0, no focus); otherwise isReturning stays true and no
\* activation flag and no focus changes
C3_FadeTick ==
    [][lastOp'.name = "animate" =>
          LET q == beforeFade(params, chaos, now', lastOp'.arg[1],
                              lastOp'.arg[2], lastOp'.arg[3])
              below == /\ fade(q.effectIntensity) < 50
                       /\ fade(q.disperseAmount) < 50
                       /\ fade(q.spiralFlowProgress) < 50
          IN q.isReturning =>
                IF below
                THEN /\ ~params'.isReturning
                     /\ allInactive(params')
                     /\ params'.disperseAmount = 0
                     /\ params'.spiralFlowProgress = 0
                     /\ params'.effectIntensity = 5000
                     /\ \A e \in Effects : params'.effectParams[e].intensity = 5000
                     /\ params'.focusedEffect = NoEffect
                ELSE /\ params'.isReturning
                     /\ params'.activeEffects = q.activeEffects
                     /\ params'.focusedEffect = q.focusedEffect]_vars

\* a fade tick has just completed a return to rest
C3_Witness ==
    /\ lastOp.name = "animate"
    /\ lastOp.fade = "complete"
    /\ ~params.isReturning
    /\ params.effectIntensity = 5000

\* C5: right after the STOP ALL command nothing is active, isReturning is
\* false, nothing is focused, disperseAmount and spiralFlowProgress are 0, and
\* no saved intensity has changed
C5_StopAllZeroes ==
    [][lastOp'.name = "stopAll" =>
          /\ allInactive(params')
          /\ ~params'.isReturning
          /\ params'.focusedEffect = NoEffect
          /\ params'.disperseAmount = 0
          /\ params'.spiralFlowProgress = 0
          /\ \A e \in Effects :
                params'.effectParams[e].intensity = params.effectParams[e].intensity
      ]_vars

\* the instances and rest positions the displacement is evaluated at
SampleInstances == 0..2
BasePositions == {<<0, 0, 0>>, <<12000, 80000, -7000>>}

\* the parameter bag with exactly the effects of S active
withOnly(p, S) ==
    [p EXCEPT !.activeEffects = [e \in Effects |-> e \in S],
              !.effectType = NoEffect]

\* the displacement applyEffects gives instance i at rest position base
displacement(p, i, base) ==
    LET q == applyEffects(p, effectTime, disperseDirections, i, base)
    IN <<q[1] - base[1], q[2] - base[2], q[3] - base[3]>>

\* C8: for every instance, time and rest position and every two effects, the
\* displacement with both active is the vector sum of the displacement with
\* only the one and with only the other active
C8_Additive ==
    instancedMesh.present =>
        \A A \in Effects, B \in Effects, i \in SampleInstances,
           base \in BasePositions :
            A # B =>
                LET both == displacement(withOnly(params, {A, B}), i, base)
                    a == displacement(withOnly(params, {A}), i, base)
                    b == displacement(withOnly(params, {B}), i, base)
                IN both = <<a[1] + b[1], a[2] + b[2], a[3] + b[3]>>

-----------------------------------------------------------------------------
(* The chaos driver's claims *)

\* C6: while the driver runs, whatever effect state it was started from, at
\* most 3 effects are active at the end of every tick
C6_AtMostThreeActive ==
    (chaos.isRunning /\ lastOp.name = "animate")
        => activeCountOf(params.activeEffects) <= 3

\* C7: startChaosMix sets the entropy to 0.2; every tick of a running driver
\* leaves the entropy no smaller than it found it, and within [0.2, 1.0]
C7_EntropyMonotone ==
    [][/\ lastOp'.name = "startChaosMix" => chaos'.entropy = 200
       /\ (lastOp'.name = "animate" /\ chaos.isRunning) =>
             /\ chaos'.entropy >= chaos.entropy
             /\ chaos'.entropy >= 200
             /\ chaos'.entropy <= 1000]_vars

\* a tick of a running driver has left the entropy at its ceiling
C7_Witness ==
    /\ lastOp.name = "animate"
    /\ chaos.isRunning
    /\ chaos.entropy = 1000
    /\ chaos.cycleCount > 0

-----------------------------------------------------------------------------
(* The return to rest *)

atRest ==
    /\ ~params.isReturning
    /\ allInactive(params)
    /\ params.spiralFlowProgress = 0
    /\ params.disperseAmount = 0

\* C4: once a return to rest is requested and no further command is issued,
\* the frame loop eventually reaches rest
C4_ReturnReachesRest == params.isReturning ~> atRest

-----------------------------------------------------------------------------
(* The claims about the stopped driver and the effect buttons *)

\* what the chaos tick of the frame with draws <<effectIndex, high>> leaves
tickOf(arg) == processChaosMix(params, chaos, now', arg[2], arg[3])

\* C11: the driver's stop leaves the driver idle, every effect inactive, no
\* focus and the return to rest requested; and the tick of an idle driver
\* changes nothing: no activation flag, effect parameter, glow or colour of
\* the parameter bag, and no entropy, hue or other field of the driver.
C11_StopThenIdleTick ==
    [][/\ lastOp'.name = "stopChaosMix" =>
              /\ ~chaos'.isRunning
              /\ allInactive(params')
              /\ params'.focusedEffect = NoEffect
              /\ params'.isReturning
       /\ (lastOp'.name = "animate" /\ ~chaos.isRunning) =>
              /\ tickOf(lastOp'.arg).p = params
              /\ tickOf(lastOp'.arg).c = chaos
              /\ chaos' = chaos]_vars

\* a frame has run after the driver was started and stopped
C11_Witness ==
    /\ lastOp.name = "animate"
    /\ ~chaos.isRunning
    /\ chaos.colorHue # InitChaos.colorHue
    /\ params.isReturning

\* the editable fields of the control panel
editableFields(p) ==
    <<p.effectIntensity, p.effectSpeed, p.spiralFlowSpeed, p.spiralFlowWaves>>

\* the editable fields once the saved values of effect e are loaded into them
savedFields(p, e) ==
    LET saved == p.effectParams[e]
    IN IF e = "spiralFlow"
       THEN <<saved.intensity, saved.speed, saved.flowSpeed, saved.waves>>
       ELSE <<saved.intensity, saved.speed, p.spiralFlowSpeed, p.spiralFlowWaves>>

\* C12: a click on the button of an effect that is active and focused loads
\* that effect's saved values into the editable fields and changes no
\* activation flag and no focus; a click on the button of an inactive effect
\* or of an active effect that is not focused leaves the editable fields
\* unchanged.
C12_LoadOnlyOnSecondClick ==
    [][lastOp'.name = "toggleEffect" =>
          LET e == lastOp'.arg[1]
          IN IF params.activeEffects[e] /\ params.focusedEffect = e
             THEN /\ editableFields(params') = savedFields(params, e)
                  /\ params'.activeEffects = params.activeEffects
                  /\ params'.focusedEffect = params.focusedEffect
             ELSE editableFields(params') = editableFields(params)]_vars

\* a click on the focused effect has brought the intensity field back from
\* the 20.0 it was moved to, which another effect keeps as its saved value
C12_Witness ==
    /\ lastOp.name = "toggleEffect"
    /\ params.focusedEffect = lastOp.arg[1]
    /\ params.effectIntensity = DEFAULT_INTENSITY
    /\ \E f \in Effects : /\ params.activeEffects[f]
                          /\ params.effectParams[f].intensity = 20000

-----------------------------------------------------------------------------
(* The claims about the instances and their descriptors *)

\* C13: between handlers, where a frame update starts, the instance count of
\* the instanced mesh, the length of the sample set and the length of the
\* disperse-direction array are equal, whatever sequence of density changes,
\* glyph changes, glyph-size changes and resets came before.
C13_ParallelArrays ==
    instancedMesh.present =>
        /\ instancedMesh.count = Len(sampledVertexIndices)
        /\ Len(disperseDirections) = Len(sampledVertexIndices)

\* a density change above 1 has left a sample set of another size than the
\* one density 1 gives
C13_Witness ==
    /\ lastOp.name = "onSamplingChange"
    /\ lastOp.arg[1] > 1
    /\ instancedMesh.count > 0
    /\ instancedMesh.count # Len(sampleVertices(skinnedMeshes, 1, maxCharacters))
    /\ Len(disperseDirections) = instancedMesh.count

\* the vertices of a mesh, and the influences of a vertex
verticesOf(mesh) == 0..(mesh.vertexCount - 1)
weightOf(mesh, v, i) == mesh.skinWeight[v + 1][i]
validInfluence(mesh, v, i) ==
    /\ weightOf(mesh, v, i) # 0
    /\ mesh.skinIndex[v + 1][i] \in 0..(Len(mesh.bones) - 1)
invalidInfluence(mesh, v, i) ==
    /\ weightOf(mesh, v, i) # 0
    /\ mesh.skinIndex[v + 1][i] \notin 0..(Len(mesh.bones) - 1)

\* the rest-pose vertex under the mesh's world transform
restInWorld(mesh, v) == applyMatrix4(restVertex(mesh, v), mesh.matrixWorld)

\* the mesh with the weight of every out-of-bounds influence of v set to 0
withoutInvalid(mesh, v) ==
    [mesh EXCEPT !.skinWeight[v + 1] =
        [i \in 1..4 |-> IF invalidInfluence(mesh, v, i) THEN 0 ELSE @[i]]]

\* C14: a vertex all of whose influences with a nonzero weight name a bone
\* outside the skeleton evaluates to the rest-pose vertex under the mesh's
\* world transform, as a vertex without weights does; and a vertex with valid
\* influences evaluates to what it evaluates to without its out-of-bounds
\* influences.
C14_InvalidInfluences ==
    \A m \in DOMAIN skinnedMeshes : \A v \in verticesOf(skinnedMeshes[m]) :
        LET mesh == skinnedMeshes[m]
        IN IF \A i \in 1..4 : ~validInfluence(mesh, v, i)
           THEN getSkinnedVertexPosition(v, mesh) = restInWorld(mesh, v)
           ELSE getSkinnedVertexPosition(v, mesh)
                    = getSkinnedVertexPosition(v, withoutInvalid(mesh, v))

\* the sample descriptors of vertices without weights, by instance
zeroWeightInstances ==
    {i \in 1..Len(sampledVertexIndices) :
        /\ sampledVertexIndices[i].type = "vertex"
        /\ \A k \in 1..4 :
               weightOf(skinnedMeshes[sampledVertexIndices[i].meshIndex + 1],
                        sampledVertexIndices[i].verts[1], k) = 0}

\* C15: a vertex whose four weights are 0 evaluates to the rest-pose vertex
\* under the mesh's world matrix in every pose of the bones, and every frame
\* writes that position, displaced by the effects, to the vertex's instance:
\* the same in every frame whatever the pose.
C15_ZeroWeightRestPose ==
    /\ \A m \in DOMAIN skinnedMeshes : \A v \in verticesOf(skinnedMeshes[m]) :
           LET mesh == skinnedMeshes[m]
           IN (\A k \in 1..4 : weightOf(mesh, v, k) = 0) =>
                  \A pose \in Poses :
                      getSkinnedVertexPosition(
                          v, [mesh EXCEPT !.boneMatrixWorld = pose])
                      = restInWorld(mesh, v)
    /\ (lastOp.name = "animateFrame" /\ instancedMesh.present) =>
           \A i \in zeroWeightInstances :
               LET sample == sampledVertexIndices[i]
               IN instancedMesh.matrices[i]
                  = applyEffects(params, effectTime, disperseDirections, i - 1,
                        restInWorld(skinnedMeshes[sample.meshIndex + 1],
                                    sample.verts[1]))

\* a frame in the moved pose has written the rest position of a vertex without
\* weights, away from the origin the instance started at
C15_Witness ==
    /\ lastOp.name = "animateFrame"
    /\ instancedMesh.present
    /\ skinnedMeshes[1].boneMatrixWorld = MovedPose
    /\ \E i \in zeroWeightInstances :
           /\ instancedMesh.matrices[i] # <<0, 0, 0>>
           /\ instancedMesh.matrices[i]
              = restInWorld(skinnedMeshes[1], sampledVertexIndices[i].verts[1])

-----------------------------------------------------------------------------
(* The claims about what the sampler emits *)

\* the descriptors of one type that the sample set holds for mesh number mi
samplesOf(mi, type) ==
    {i \in 1..Len(sampledVertexIndices) :
        /\ sampledVertexIndices[i].meshIndex = mi
        /\ sampledVertexIndices[i].type = type}
countOf(mi, type) == Cardinality(samplesOf(mi, type))

\* the distinct undirected edges of an indexed mesh
edgesOf(mesh) ==
    {edgeKey(faceVertex(mesh, f, k), faceVertex(mesh, f, (k + 1) % 3)) :
        f \in 0..(faceCountOf(mesh) - 1), k \in 0..2}

noLargeFace(mesh) ==
    \A f \in 0..(faceCountOf(mesh) - 1) : ~isLargeTriangle(mesh, f)

\* the sample set was made at density 1 and the cap was not reached
uncappedAtDensityOne ==
    /\ instancedMesh.present
    /\ params.samplingDensity = 1
    /\ Len(sampledVertexIndices) < maxCharacters

\* C16: at density 1 with the cap not binding, an indexed mesh with V
\* vertices, F faces none of them large and E distinct undirected edges gets
\* V vertex, F faceCenter, 6F interior and 3E edgePoint descriptors; the
\* single triangle gets 19 descriptors and the two-triangle quad 33.
C16_DescriptorCounts ==
    uncappedAtDensityOne =>
        /\ \A m \in DOMAIN skinnedMeshes :
               LET mesh == skinnedMeshes[m]
               IN (mesh.hasIndex /\ noLargeFace(mesh)) =>
                      /\ countOf(m - 1, "vertex") = mesh.vertexCount
                      /\ countOf(m - 1, "faceCenter") = faceCountOf(mesh)
                      /\ countOf(m - 1, "interior") = 6 * faceCountOf(mesh)
                      /\ countOf(m - 1, "edgePoint")
                         = 3 * Cardinality(edgesOf(mesh))
        /\ skinnedMeshes = <<TriangleMesh>> =>
               Len(sampledVertexIndices) - countOf(0, "bonePoint") = 19
        /\ skinnedMeshes = <<QuadMesh>> =>
               Len(sampledVertexIndices) - countOf(0, "bonePoint") = 33

\* the quad, resampled at density 1 under the default cap: 33 descriptors,
\* 15 of them on its 5 edges
C16_Witness ==
    /\ uncappedAtDensityOne
    /\ afterResampling
    /\ skinnedMeshes = <<QuadMesh>>
    /\ Len(sampledVertexIndices) = 33
    /\ countOf(0, "edgePoint") = 15

\* the faces the face loop takes at the density of the sample set, and the
\* faces among them that have no area
sampledFaces(mesh) ==
    {f \in 0..(faceCountOf(mesh) - 1) : f % params.samplingDensity = 0}
flatFaces(mesh) ==
    IF mesh.hasIndex THEN {f \in sampledFaces(mesh) : faceArea2(mesh, f) = 0}
    ELSE {}

\* the barycentric parameters of the interior descriptors the sample set holds
\* for face f of mesh number mi, in the order of the set
interiorParams(mi, mesh, f, i) ==
    LET mine(sample) == /\ sample.meshIndex = mi
                        /\ sample.type = "interior"
                        /\ sample.verts = <<faceVertex(mesh, f, 0),
                                            faceVertex(mesh, f, 1),
                                            faceVertex(mesh, f, 2)>>
        found == SelectSeq(SubSeq(sampledVertexIndices, i,
                                  Len(sampledVertexIndices)), mine)
    IN [n \in 1..Len(found) |-> found[n].param]

capNotReached == instancedMesh.present /\ Len(sampledVertexIndices) < maxCharacters

\* C17: a sampled face with zero area contributes no interior descriptor.
C17_FlatFaceCenterOnly ==
    capNotReached =>
        \A m \in DOMAIN skinnedMeshes : \A f \in flatFaces(skinnedMeshes[m]) :
            interiorParams(m - 1, skinnedMeshes[m], f, 1) = <<>>

\* C17 as the sampler has it: a sampled face with zero area is never large
\* and contributes, besides its faceCenter, the six base interior descriptors
\* and no others.
C17_FlatFaceBasePoints ==
    capNotReached =>
        \A m \in DOMAIN skinnedMeshes : \A f \in flatFaces(skinnedMeshes[m]) :
            /\ ~isLargeTriangle(skinnedMeshes[m], f)
            /\ interiorParams(m - 1, skinnedMeshes[m], f, 1)
               = baseBarycentricPoints

\* the mesh with the collinear face is sampled: its face has a faceCenter and
\* six interior descriptors
C17_Witness ==
    /\ capNotReached
    /\ flatFaces(skinnedMeshes[1]) = {0}
    /\ countOf(0, "faceCenter") = 1
    /\ countOf(0, "interior") = 6

\* the world position of a bone: the translation of its world matrix
bonePosition(mesh, boneIndex) == mesh.boneMatrixWorld[boneIndex + 1].d

\* the position the rule of a descriptor's own type gives: for a bonePoint
\* the point at t = i / pointsPerBone between the parent bone and the bone,
\* for every other type the branch of that type in updateASCIIPositions
ruledPosition(sample, mesh) ==
    IF sample.type = "bonePoint"
    THEN LET from == bonePosition(mesh, sample.verts[2])
             to == bonePosition(mesh, sample.verts[1])
         IN [k \in 1..3 |->
                from[k] + ((to[k] - from[k]) * sample.param[1]) \div pointsPerBone]
    ELSE samplePosition(sample, mesh)

\* C18: a frame's position update writes to every instance the position of
\* its own descriptor, resolved by the rule of the descriptor's own type and
\* displaced by the effects; a bonePoint is resolved between its parent bone
\* and its bone, not as a vertex.
C18_EveryKindResolved ==
    (lastOp.name = "animateFrame" /\ instancedMesh.present) =>
        \A i \in 1..Len(sampledVertexIndices) :
            LET sample == sampledVertexIndices[i]
            IN instancedMesh.matrices[i]
               = applyEffects(params, effectTime, disperseDirections, i - 1,
                     ruledPosition(sample, skinnedMeshes[sample.meshIndex + 1]))

\* the bonePoint descriptors the sample set holds for bone number k (from 1)
\* of mesh number mi, by their place in the set
bonePointsOf(mi, k) ==
    {i \in samplesOf(mi, "bonePoint") : sampledVertexIndices[i].verts[1] = k - 1}

\* C19: after initialization with the cap not reached, every bone whose name
\* contains "tail" and whose parent is a bone has exactly 20 bonePoint
\* descriptors, each naming the bone and its parent, with t within [0, 1] and
\* increasing along the set; every other bone has none.
C19_TwentyPerTailBone ==
    (afterInitialization /\ capNotReached) =>
        \A m \in DOMAIN skinnedMeshes :
            \A k \in 1..Len(skinnedMeshes[m].bones) :
                LET bone == skinnedMeshes[m].bones[k]
                    points == bonePointsOf(m - 1, k)
                IN IF bone.tail /\ bone.parent # 0
                   THEN /\ Cardinality(points) = 20
                        /\ \A i \in points :
                               /\ sampledVertexIndices[i].verts[2] = bone.parent - 1
                               /\ sampledVertexIndices[i].param[1] \in 0..pointsPerBone
                        /\ \A i, j \in points :
                               i < j => sampledVertexIndices[i].param[1]
                                        < sampledVertexIndices[j].param[1]
                   ELSE points = {}

-----------------------------------------------------------------------------
(* The claim about the Fibonacci event *)

\* a frame of a running driver whose tick fires an event and whose fade tick
\* does nothing
eventStep ==
    /\ lastOp'.name = "animate"
    /\ lastOp'.fade = "idle"
    /\ eventFires(chaos, now')

\* the effect the event has drawn, and its probability: the tick's elapsed
\* time is the new clock reading less the start time, its entropy the
\* driver's new entropy
drawnIndex == lastOp'.arg[2]
drawnEffect == EFFECTS[drawnIndex + 1]
drawnProbability ==
    quantumProbability(drawnIndex, now' - chaos.startTime, chaos'.entropy)

othersKeepActivation ==
    \A f \in Effects \ {drawnEffect} :
        params'.activeEffects[f] = params.activeEffects[f]
drawnActivated ==
    ~params.activeEffects[drawnEffect] /\ params'.activeEffects[drawnEffect]
drawnDeactivated ==
    params.activeEffects[drawnEffect] /\ ~params'.activeEffects[drawnEffect]
activatedAsClaimed ==
    /\ drawnActivated <=>
           /\ ~params.activeEffects[drawnEffect]
           /\ drawnProbability > 400
           /\ activeCountOf(params.activeEffects) < MAX_ACTIVE_EFFECTS
    /\ drawnActivated => params'.focusedEffect = drawnEffect

\* C20: an event changes the activation of the drawn effect only; it
\* activates and focuses the effect exactly when the effect is inactive, its
\* probability exceeds 0.4 and fewer than 3 effects are active; it deactivates
\* the effect exactly when the effect is active and its probability is below
\* 0.3 or more than 3 effects are active.
C20_EventTogglesOne ==
    [][eventStep =>
          /\ othersKeepActivation
          /\ activatedAsClaimed
          /\ drawnDeactivated <=>
                 /\ params.activeEffects[drawnEffect]
                 /\ \/ drawnProbability < 300
                    \/ activeCountOf(params.activeEffects) > MAX_ACTIVE_EFFECTS]_vars

\* C20 as the driver has it: the drawn effect is deactivated exactly when it
\* is active and its probability is below 0.3 or at least 3 effects are
\* active; the rest as above.
C20_EventTogglesOneAtCap ==
    [][eventStep =>
          /\ othersKeepActivation
          /\ activatedAsClaimed
          /\ drawnDeactivated <=>
                 /\ params.activeEffects[drawnEffect]
                 /\ \/ drawnProbability < 300
                    \/ activeCountOf(params.activeEffects) >= MAX_ACTIVE_EFFECTS]_vars


\* an event has just deactivated the effect it drew although the effect's
\* probability exceeds 0.4: two effects are left active, and had the effect
\* been inactive the event would have activated it
C20_Witness ==
    /\ lastOp.name = "animate"
    /\ lastOp.fade = "idle"
    /\ chaos.isRunning
    /\ chaos.lastEventTime = now
    /\ ~params.activeEffects[EFFECTS[lastOp.arg[2] + 1]]
    /\ quantumProbability(lastOp.arg[2], now - chaos.startTime, chaos.entropy) > 400
    /\ activeCountOf(params.activeEffects) = 2

-----------------------------------------------------------------------------
(* The claims about the animators and the frame *)

\* a frame whose fade tick does nothing: a frame outside the return to rest
idleFadeFrame == lastOp'.name = "animate" /\ lastOp'.fade = "idle"

\* C21: in a frame outside the return to rest spiralFlowProgress does not
\* decrease while the spiralFlow effect is active and does not increase while
\* it is inactive, however it came to be inactive.
C21_FlowProgressFollowsActivation ==
    [][idleFadeFrame =>
          IF effectOn(params', "spiralFlow")
          THEN params'.spiralFlowProgress >= params.spiralFlowProgress
          ELSE params'.spiralFlowProgress <= params.spiralFlowProgress]_vars


\* C22: a glyph change or glyph-size change keeps the sample set, and leaves
\* every instance's disperse direction as it was.
C22_GlyphChangeKeepsDirections ==
    [][lastOp'.name = "onCharacterChange" =>
          /\ sampledVertexIndices' = sampledVertexIndices
          /\ disperseDirections' = disperseDirections]_vars


\* the instances a frame writes: those up to the first sample whose position
\* cannot be resolved in the meshes and pose given
resolved(meshes, i) ==
    \A j \in 1..i :
        samplePosition(sampledVertexIndices[j],
                       meshes[sampledVertexIndices[j].meshIndex + 1]) # Thrown

\* C23: a frame sets the pose, then advances effect time, disperseAmount and
\* spiralFlowProgress, and then writes the instances: every instance written
\* is computed from the frame's pose and from the animators' values after
\* their advance.
C23_FrameOrder ==
    [][lastOp'.name = "animateFrame" =>
          LET delta == lastOp'.arg[1]
              t == effectTime + delta
              p == advanceGlobalAnimators(params, delta)
              meshes == skinnedMeshes'
          IN /\ effectTime' = t
             /\ params' = p
             /\ (instancedMesh.present /\ Len(meshes) > 0) =>
                    \A i \in 1..Len(sampledVertexIndices) :
                        resolved(meshes, i) =>
                            instancedMesh'.matrices[i]
                            = applyEffects(p, t, disperseDirections, i - 1,
                                  samplePosition(sampledVertexIndices[i],
                                      meshes[sampledVertexIndices[i].meshIndex
                                             + 1]))]_vars

\* a frame has written an instance that the animators' values before the
\* frame would have placed elsewhere
C23_Witness ==
    /\ lastOp.name = "animateFrame"
    /\ instancedMesh.present
    /\ params.activeEffects["hover"]
    /\ \E i \in 1..Len(sampledVertexIndices) :
           /\ resolved(skinnedMeshes, i)
           /\ instancedMesh.matrices[i]
              # applyEffects(params, effectTime - lastOp.arg[1],
                             disperseDirections, i - 1,
                             samplePosition(sampledVertexIndices[i],
                                 skinnedMeshes[sampledVertexIndices[i].meshIndex
                                               + 1]))


-----------------------------------------------------------------------------
(* The claims about the chaos driver and the control panel *)

\* the Intensity or Effect Speed slider has just been moved while the driver
\* runs, and its value has been saved to the focused, active effect
manualEditWhileRunning ==
    /\ lastOp.name \in {"setEffectIntensity", "setEffectSpeed"}
    /\ chaos.isRunning
    /\ params.focusedEffect # NoEffect
    /\ params.activeEffects[params.focusedEffect]

\* C24: when a slider sets the intensity or speed of an active effect while
\* the driver runs, the effect's intensity and speed after the chaos tick of
\* the frame that follows are still the values the slider left.
C24_ManualEditSurvivesTick ==
    [][(manualEditWhileRunning /\ lastOp'.name = "animate") =>
          params'.effectParams[params.focusedEffect]
          = params.effectParams[params.focusedEffect]]_vars


-----------------------------------------------------------------------------
(* The claims about disperseAmount *)

\* the ends of the Effect Speed slider's range and a value inside it
\* (gui.js 456)
SliderSpeeds == {100, 2000, 5000}
DisperseTargets == {0, 500, 1000}

\* x lies between a and b, ends included
between(x, a, b) == (a <= x /\ x <= b) \/ (b <= x /\ x <= a)

\* C25: disperseAmount lies in [0, 1] in every state; from any amount
\* reached, a smoothing step at any speed of the slider's range toward any
\* target ends between the amount and the target; every frame outside the
\* return to rest leaves the amount between its old value and the target, and
\* every frame of the return to rest leaves it between 0 and the larger of
\* the two.
C25_DisperseAmountInRange ==
    /\ [](/\ params.disperseAmount \in 0..1000
          /\ params.disperseTarget \in DisperseTargets
          /\ params.effectSpeed \in 100..5000
          /\ \A v \in SliderSpeeds, target \in DisperseTargets :
                 between(advanceGlobalAnimators(
                             [params EXCEPT !.effectSpeed = v,
                                            !.disperseTarget = target],
                             16).disperseAmount,
                         params.disperseAmount, target))
    /\ [][lastOp'.name = "animate" =>
             IF lastOp'.fade = "idle"
             THEN between(params'.disperseAmount, params.disperseAmount,
                          params'.disperseTarget)
             ELSE between(params'.disperseAmount, 0,
                          Max(params.disperseAmount,
                              params'.disperseTarget))]_vars

\* a fade step has lowered an amount that smoothing had raised, and the
\* amount is still above 0
C25_Witness ==
    /\ lastOp.name = "animate"
    /\ lastOp.fade = "fading"
    /\ params.disperseAmount > 0
    /\ params.disperseAmount < 1000


-----------------------------------------------------------------------------
(* The claims about the driver's events *)

\* the gap, in thousandths of a second, that the k-th event of a run needs
requiredGap(k) == FIBONACCI[(k % 15) + 1] * 500

\* the frame's tick has fired an event
eventFired == chaos'.fibIndex # chaos.fibIndex

\* C26: a run starts with no event counted and the start as the time of the
\* last event; the tick of a running driver fires at most one event, it fires
\* the k-th event when and only when its clock reading is FIB[k mod 15] x 0.5 s
\* or more after the last event, and an event becomes the last event at the
\* tick's clock reading; the gaps are those of the fifteen Fibonacci numbers
\* 1, 1, 2, 3, 5, ..., 610.
C26_FibonacciTiming ==
    /\ [](/\ Len(FIBONACCI) = 15
          /\ FIBONACCI[1] = 1 /\ FIBONACCI[2] = 1
          /\ \A k \in 3..15 : FIBONACCI[k] = FIBONACCI[k - 1] + FIBONACCI[k - 2])
    /\ [][/\ lastOp'.name = "startChaosMix" =>
                 chaos'.fibIndex = 0 /\ chaos'.lastEventTime = now
          /\ (lastOp'.name = "animate" /\ chaos.isRunning) =>
                 IF now' >= chaos.lastEventTime + requiredGap(chaos.fibIndex)
                 THEN /\ chaos'.fibIndex = chaos.fibIndex + 1
                      /\ chaos'.lastEventTime = now'
                 ELSE /\ chaos'.fibIndex = chaos.fibIndex
                      /\ chaos'.lastEventTime = chaos.lastEventTime]_vars

\* the sixteenth event of a run has fired sooner than the fifteen gaps of
\* 798 s and one more gap of 305 s allow: the gaps have wrapped
C26_Witness ==
    /\ lastOp.name = "animate"
    /\ chaos.isRunning
    /\ chaos.fibIndex = 16
    /\ chaos.lastEventTime = now
    /\ now - chaos.startTime < 798000 + 305000


-----------------------------------------------------------------------------
(* The claims about large faces *)

\* the large faces among the faces the face loop takes
largeFaces(mesh) ==
    IF mesh.hasIndex
    THEN {f \in sampledFaces(mesh) : isLargeTriangle(mesh, f)}
    ELSE {}

\* the points i/s, j/s, k/s of the grid of s subdivisions, corners left out
gridPoints(s) ==
    {<<i, j, s - i - j, s>> : i \in 0..s, j \in 0..s} \cap
    {p \in (0..s) \X (0..s) \X (0..s) \X {s} :
        p[1] + p[2] + p[3] = s /\ p[1] # s /\ p[2] # s /\ p[3] # s}

\* the edges that the faces taken before face f have
edgesBefore(mesh, f) ==
    {edgeKey(faceVertex(mesh, g, k), faceVertex(mesh, g, (k + 1) % 3)) :
        g \in {h \in sampledFaces(mesh) : h < f}, k \in 0..2}

\* the parameters of the edgePoint descriptors the sample set holds for the
\* edge from a to b of mesh number mi, in the order of the set
edgeParams(mi, a, b, i) ==
    LET mine(sample) == /\ sample.meshIndex = mi
                        /\ sample.type = "edgePoint"
                        /\ sample.verts = <<a, b>>
        found == SelectSeq(SubSeq(sampledVertexIndices, i,
                                  Len(sampledVertexIndices)), mine)
    IN [n \in 1..Len(found) |-> found[n].param[1]]

\* C27: with the cap not reached, a sampled face of more than twice the
\* average area has exactly (s+1)(s+2)/2 - 3 interior descriptors for
\* s = min(10, ceil(area / average) + 3), which lies in 6..10; their triples
\* are the points (i/s, j/s, k/s) summing to 1 other than the three corners,
\* each once; and each of its edges that no earlier face had has the nine
\* edge points 0.1 .. 0.9.  The grid of every s in 6..10 has that many
\* points, and a face eight times the average gets s = 10.
C27_LargeFaceGrid ==
    /\ \A s \in 6..10 :
           LET pts == largeBarycentricPoints(s, 0, 0)
           IN /\ Len(pts) = ((s + 1) * (s + 2)) \div 2 - 3
              /\ {pts[i] : i \in 1..Len(pts)} = gridPoints(s)
    /\ isLargeTriangle(SliverMesh, 0)
    /\ CeilDiv(faceArea2(SliverMesh, 0) * faceCountOf(SliverMesh),
               totalArea2(SliverMesh)) + 3 = 11
    /\ subdivisions(SliverMesh, 0) = 10
    /\ capNotReached =>
           \A m \in DOMAIN skinnedMeshes :
               \A f \in largeFaces(skinnedMeshes[m]) :
                   LET mesh == skinnedMeshes[m]
                       s == subdivisions(mesh, f)
                       pts == interiorParams(m - 1, mesh, f, 1)
                   IN /\ s \in 6..10
                      /\ Len(pts) = ((s + 1) * (s + 2)) \div 2 - 3
                      /\ {pts[i] : i \in 1..Len(pts)} = gridPoints(s)
                      /\ \A k \in 0..2 :
                             LET a == faceVertex(mesh, f, k)
                                 b == faceVertex(mesh, f, (k + 1) % 3)
                             IN edgeKey(a, b) \notin edgesBefore(mesh, f) =>
                                    edgeParams(m - 1, a, b, 1)
                                    = <<100, 200, 300, 400, 500, 600, 700,
                                        800, 900>>

\* the mesh of one large face and seven faces without area is sampled below
\* the cap: its first face is large, ceil(area / average) + 3 is 11 and s is
\* 10, the face has the 63 points of 10 subdivisions and its edge 0-1 has
\* nine edge points
C27_Witness ==
    /\ capNotReached
    /\ skinnedMeshes = <<SliverMesh>>
    /\ 0 \in largeFaces(SliverMesh)
    /\ subdivisions(SliverMesh, 0) = 10
    /\ Len(interiorParams(0, SliverMesh, 0, 1)) = 63
    /\ Len(edgeParams(0, 0, 1, 1)) = 9

-----------------------------------------------------------------------------
(* The claims about the focus and the return to rest *)

\* C28: under the commands of the control panel and the frames between them,
\* the focused effect is none or an effect that is active.
C28_FocusIsActive ==
    params.focusedEffect # NoEffect => params.activeEffects[params.focusedEffect]


\* the focused effect has been stopped while another was active, and the
\* focus has passed to an active effect
C28_Witness ==
    /\ lastOp.name = "stopEffect"
    /\ ~params.activeEffects[lastOp.arg[1]]
    /\ params.focusedEffect # NoEffect
    /\ params.focusedEffect # lastOp.arg[1]
    /\ params.activeEffects[params.focusedEffect]


\* the intensities a parameter bag holds: the slider's and every effect's
intensitiesOf(p) ==
    {p.effectIntensity} \cup {p.effectParams[e].intensity : e \in Effects}

\* C29: a click on an effect button during the return to rest ends the
\* return and runs no completion: every effect active before is active after,
\* every intensity after is one of the (decayed) intensities before,
\* disperseAmount is unchanged, and spiralFlowProgress is unchanged unless the
\* click activates spiralFlow, which sets it to 0.
C29_ClickCancelsReturn ==
    [][(lastOp'.name = "toggleEffect" /\ params.isReturning) =>
          /\ ~params'.isReturning
          /\ \A e \in Effects : params.activeEffects[e] => params'.activeEffects[e]
          /\ intensitiesOf(params') \subseteq intensitiesOf(params)
          /\ params'.disperseAmount = params.disperseAmount
          /\ params'.spiralFlowProgress =
                 IF lastOp'.arg[1] = "spiralFlow"
                    /\ ~params.activeEffects["spiralFlow"]
                 THEN 0 ELSE params.spiralFlowProgress]_vars

\* a click has left the return to rest cancelled with an effect active, a
\* decayed intensity and a disperseAmount above 0
C29_Witness ==
    /\ lastOp.name = "toggleEffect"
    /\ ~params.isReturning
    /\ \E e \in Effects : params.activeEffects[e]
    /\ \E v \in intensitiesOf(params) : 0 < v /\ v < DEFAULT_INTENSITY
    /\ params.disperseAmount > 0


-----------------------------------------------------------------------------
(* The claims about the quantum probability *)

\* the frame's tick has fired an event during a run
runningEvent ==
    /\ lastOp'.name = "animate"
    /\ chaos.isRunning
    /\ eventFired

\* C30: at every tick of a run the probability of each of the six effects
\* lies in [0, entropy], and entropy is at most 0.4 exactly in the first 10 s;
\* an event at entropy 0.4 or less activates no effect, and an event at
\* entropy below 0.3 that draws an active effect deactivates it.
C30_ProbabilityWithinEntropy ==
    /\ []((chaos.isRunning /\ lastOp.name = "animate") =>
              /\ \A effectIndex \in 0..(Len(EFFECTS) - 1) :
                     quantumProbability(effectIndex, now - chaos.startTime,
                                        chaos.entropy) \in 0..chaos.entropy
              /\ chaos.entropy <= 400 <=> now - chaos.startTime <= 10000)
    /\ [][runningEvent =>
             /\ chaos'.entropy <= 400 =>
                    \A e \in Effects :
                        params'.activeEffects[e] => params.activeEffects[e]
             /\ (chaos'.entropy < 300 /\ params.activeEffects[drawnEffect]) =>
                    ~params'.activeEffects[drawnEffect]]_vars

\* an event at entropy below 0.3 has just drawn wave, the effect the run
\* started with, and has deactivated it
C30_Witness ==
    /\ lastOp.name = "animate"
    /\ chaos.isRunning
    /\ chaos.lastEventTime = now
    /\ chaos.fibIndex = 1
    /\ chaos.entropy < 300
    /\ EFFECTS[lastOp.arg[2] + 1] = "wave"
    /\ params.focusedEffect = "wave"
    /\ ~params.activeEffects["wave"]

====
